---- MODULE Spec2Model ----
(***************************************************************************)
(* Subset-winners analysis of the dashboard: the SubsetWinnersMatrix       *)
(* component (src/src/components/Skeleton.tsx) turns the table snapshot    *)
(* delivered by useValidatorSummary into miner records, then runs the      *)
(* Pareto-dominance engine over every non-empty environment subset.        *)
(*                                                                         *)
(* JavaScript values are tagged records: null, undefined, a finite number, *)
(* NaN, +/-Infinity, or a string.  A string is a sequence of one-character *)
(* strings, so that parsing, case folding and collation are computed.      *)
(***************************************************************************)
EXTENDS Integers, Sequences, FiniteSets

VARIABLES
    pending,    \* payload of the request issued on mount, not yet delivered
    summary,    \* useValidatorSummary's data: NoData or [columns, rows]
    envs,       \* useMemo envs: inferred environment columns
    miners,     \* useMemo miners: Miner records of the snapshot
    barMetric,  \* useState barMetric: "pts" | "weight" | "sum"
    mask,       \* rawColumns: the loop counter of the subset enumeration
    cols,       \* rawColumns: the subset columns pushed so far
    topM,       \* useState topM: the display cap
    loading,    \* useValidatorSummary's loading flag
    error,      \* useValidatorSummary's error: Null or a message
    fetches,    \* the calls of fetchData: where each one stands
    mounted,    \* the component that uses the hook is mounted
    refreshLog, \* bookkeeping of the refreshes, kept for the properties only
    sortedColumns,  \* useMemo sortedColumns
    columns,        \* useMemo columns: the displayed list
    colorMap        \* useMemo colorMap: winner id -> color

vars == <<pending, summary, envs, miners, barMetric, mask, cols, topM, loading, error, fetches,
          mounted, refreshLog,
          sortedColumns, columns, colorMap>>

----------------------------------------------------------------------------
(* Bounds of the model *)

\* most rows of a generated table snapshot
MaxRows == 3
\* generated score cells are null or 1..MaxScore
MaxScore == 2

----------------------------------------------------------------------------
(* JavaScript values *)

Null == [t |-> "null"]
Undefined == [t |-> "undefined"]
NaN == [t |-> "nan"]
NegInf == [t |-> "ninf"]
PosInf == [t |-> "pinf"]
Num(v) == [t |-> "num", v |-> v]
Str(s) == [t |-> "str", s |-> s]

\* x == null (loose): null or undefined
IsNullish(x) == x.t \in {"null", "undefined"}

\* Number.isFinite(x)
IsFinite(x) == x.t = "num"

\* a < b on numbers: false when either side is NaN
JsLt(a, b) ==
    /\ a.t # "nan" /\ b.t # "nan"
    /\ \/ a.t = "ninf" /\ b.t # "ninf"
       \/ a.t = "num" /\ b.t = "pinf"
       \/ a.t = "num" /\ b.t = "num" /\ a.v < b.v

\* a > b on numbers
JsGt(a, b) == JsLt(b, a)

\* a !== b on numbers: NaN differs from everything, itself included
JsStrictNe(a, b) == a.t = "nan" \/ b.t = "nan" \/ a # b

\* a - b on numbers
JsSub(a, b) ==
    IF a.t = "nan" \/ b.t = "nan" THEN NaN
    ELSE IF a.t = "num" /\ b.t = "num" THEN Num(a.v - b.v)
    ELSE IF a.t = b.t THEN NaN
    ELSE IF a.t = "pinf" \/ b.t = "ninf" THEN PosInf
    ELSE NegInf

----------------------------------------------------------------------------
(* Strings: sequences of one-character strings *)

Digits == <<"0", "1", "2", "3", "4", "5", "6", "7", "8", "9">>
UpperLetters == <<"A", "B", "C", "D", "E", "F", "G", "H", "I", "J", "K", "L", "M",
                  "N", "O", "P", "Q", "R", "S", "T", "U", "V", "W", "X", "Y", "Z">>
LowerLetters == <<"a", "b", "c", "d", "e", "f", "g", "h", "i", "j", "k", "l", "m",
                  "n", "o", "p", "q", "r", "s", "t", "u", "v", "w", "x", "y", "z">>

IndexIn(seq, c) == IF \E i \in 1..Len(seq) : seq[i] = c
                   THEN CHOOSE i \in 1..Len(seq) : seq[i] = c
                   ELSE 0

\* the characters strings are written over
Chars == {Digits[i] : i \in 1..Len(Digits)}
         \cup {UpperLetters[i] : i \in 1..Len(UpperLetters)}
         \cup {LowerLetters[i] : i \in 1..Len(LowerLetters)}
         \cup {"*", "/", "|", "-", "_", " "}

DigitSet == {Digits[i] : i \in 1..Len(Digits)}
UpperSet == {UpperLetters[i] : i \in 1..Len(UpperLetters)}

IsDigit(c) == c \in DigitSet
DigitValues == [c \in DigitSet |-> IndexIn(Digits, c) - 1]
DigitVal(c) == DigitValues[c]

\* String.prototype.toLowerCase / toUpperCase, one character
LowerTable == [c \in Chars |->
                 IF IndexIn(UpperLetters, c) # 0 THEN LowerLetters[IndexIn(UpperLetters, c)] ELSE c]
UpperTable == [c \in Chars |->
                 IF IndexIn(LowerLetters, c) # 0 THEN UpperLetters[IndexIn(LowerLetters, c)] ELSE c]
LowerChar(c) == LowerTable[c]
UpperChar(c) == UpperTable[c]

toLowerCase(s) == [i \in 1..Len(s) |-> LowerChar(s[i])]
toUpperCase(s) == [i \in 1..Len(s) |-> UpperChar(s[i])]

\* Collation: the primary weight of a character ignores its case
\* (punctuation, then digits, then letters); among strings equal on every
\* primary weight a lower-case letter sorts before its upper-case form.
PrimaryTable == [c \in Chars |->
                   IF c \in DigitSet THEN 10 + IndexIn(Digits, c)
                   ELSE IF IndexIn(LowerLetters, c) # 0 THEN 100 + IndexIn(LowerLetters, c)
                   ELSE IF IndexIn(UpperLetters, c) # 0 THEN 100 + IndexIn(UpperLetters, c)
                   ELSE 1]
PrimaryRank(c) == PrimaryTable[c]

CaseRank(c) == IF c \in UpperSet THEN 1 ELSE 0

RECURSIVE compareBy(_, _, _, _)
compareBy(a, b, i, primary) ==
    IF i > Len(a) /\ i > Len(b) THEN 0
    ELSE IF i > Len(a) THEN -1
    ELSE IF i > Len(b) THEN 1
    ELSE LET ra == IF primary THEN PrimaryRank(a[i]) ELSE CaseRank(a[i])
             rb == IF primary THEN PrimaryRank(b[i]) ELSE CaseRank(b[i])
         IN IF ra < rb THEN -1
            ELSE IF ra > rb THEN 1
            ELSE compareBy(a, b, i + 1, primary)

\* a.localeCompare(b): negative, zero or positive
localeCompare(a, b) ==
    LET p == compareBy(a, b, 1, TRUE)
    IN IF p # 0 THEN p ELSE compareBy(a, b, 1, FALSE)

----------------------------------------------------------------------------
(* Conversions.  String cells are written over digits, letters, "*" and    *)
(* "/"; signs, fractions, exponents and radix prefixes do not occur in     *)
(* them, so a numeric literal is a run of digits.                          *)

RECURSIVE DigitsValue(_, _, _)
\* value of the digit run s[i..n], continuing the accumulated value acc
DigitsValue(s, i, acc) ==
    IF i > Len(s) \/ ~IsDigit(s[i]) THEN acc
    ELSE DigitsValue(s, i + 1, 10 * acc + DigitVal(s[i]))

AllDigits(s) == \A i \in 1..Len(s) : IsDigit(s[i])

RECURSIVE DecimalString(_)
\* decimal spelling of a non-negative integer
DecimalString(n) ==
    IF n < 10 THEN <<Digits[n + 1]>>
    ELSE Append(DecimalString(n \div 10), Digits[(n % 10) + 1])

\* Number(x)
ToNumber(x) ==
    CASE x.t = "null" -> Num(0)
      [] x.t = "undefined" -> NaN
      [] x.t = "str" -> IF x.s = <<>> THEN Num(0)
                        ELSE IF AllDigits(x.s) THEN Num(DigitsValue(x.s, 1, 0))
                        ELSE NaN
      [] OTHER -> x

\* String(x) of a cell
JsString(x) ==
    CASE x.t = "str" -> x.s
      [] x.t = "num" -> DecimalString(x.v)
      [] x.t = "null" -> <<"n", "u", "l", "l">>
      [] x.t = "undefined" -> <<"u", "n", "d", "e", "f", "i", "n", "e", "d">>
      [] OTHER -> <<"N", "a", "N">>

\* parseFloat(s): the longest numeric prefix, NaN when there is none
parseFloat(s) ==
    IF Len(s) = 0 \/ ~IsDigit(s[1]) THEN NaN ELSE Num(DigitsValue(s, 1, 0))

\* str.replace(/\*/g, '')
StripStars(s) == SelectSeq(s, LAMBDA c : c # "*")

\* str.includes('/') ? str.split('/')[0] : str
HeadBeforeSlash(s) ==
    IF \E i \in 1..Len(s) : s[i] = "/"
    THEN SubSeq(s, 1, (CHOOSE i \in 1..Len(s) : s[i] = "/" /\ \A j \in 1..(i - 1) : s[j] # "/") - 1)
    ELSE s

\* coerces with Number(v), as the Pts and Wgt cells are
parseScoreAny_Number(v) == IF IsNullish(v) THEN Null ELSE ToNumber(v)

parseScoreAny(v) ==
    IF IsNullish(v) THEN Null
    ELSE IF v.t # "str" THEN (IF IsFinite(v) THEN v ELSE Null)
    ELSE LET n == parseFloat(HeadBeforeSlash(StripStars(v.s)))
         IN IF IsFinite(n) THEN n ELSE Null

----------------------------------------------------------------------------
(* Subsets as bit masks *)

RECURSIVE BitAnd(_, _)
\* a & b on non-negative integers
BitAnd(a, b) ==
    IF a = 0 \/ b = 0 THEN 0
    ELSE (a % 2) * (b % 2) + 2 * BitAnd(a \div 2, b \div 2)

\* 1 << i
Shl1(i) == 2 ^ i

\* mask & (1 << i), as a condition
HasBit(m, i) == BitAnd(m, Shl1(i)) # 0

RECURSIVE popcount_BitLength(_)
\* (mutant) shifts the argument instead of clearing its lowest set bit
popcount_BitLength(n) == IF n = 0 THEN 0 ELSE 1 + popcount_BitLength(n \div 2)

RECURSIVE popcount(_)
popcount(n) == IF n = 0 THEN 0 ELSE 1 + popcount(BitAnd(n, n - 1))

RECURSIVE subsetEnvListFrom(_, _, _)
subsetEnvListFrom(m, es, i) ==
    IF i >= Len(es) THEN <<>>
    ELSE (IF HasBit(m, i) THEN <<es[i + 1]>> ELSE <<>>) \o subsetEnvListFrom(m, es, i + 1)

\* es[i + 1] is the code's envs[i]
subsetEnvList(m, es) == subsetEnvListFrom(m, es, 0)

----------------------------------------------------------------------------
(* The dominance engine.  A miner is named by its position in the miner    *)
(* list (the code compares miner objects by identity); 0 stands for null.  *)

\* (mutant) the missing-score test inverted: a present score ends the sum
sumScores_InvertedCheck(es, miner, m) ==
    IF \E i \in 0..(Len(es) - 1) : HasBit(m, i) /\ ~IsNullish(miner.env[es[i + 1]])
    THEN NegInf ELSE Num(0)

RECURSIVE sumScoresFrom(_, _, _, _, _)
sumScoresFrom(es, miner, m, i, s) ==
    IF i >= Len(es) THEN Num(s)
    ELSE IF ~HasBit(m, i) THEN sumScoresFrom(es, miner, m, i + 1, s)
    ELSE LET v == miner.env[es[i + 1]]
         IN IF IsNullish(v) \/ ~IsFinite(v) THEN NegInf
            ELSE sumScoresFrom(es, miner, m, i + 1, s + v.v)

sumScores(es, miner, m) == sumScoresFrom(es, miner, m, 0, 0)

\* (mutant) a missing score compares as +Infinity
domPair_MissingAbove(es, a, b, i) ==
    LET ea == a.env[es[i + 1]]
        eb == b.env[es[i + 1]]
    IN <<IF IsNullish(ea) THEN PosInf ELSE ToNumber(ea),
         IF IsNullish(eb) THEN PosInf ELSE ToNumber(eb)>>

\* one comparison of the loop: <<va, vb>>
domPair(es, a, b, i) ==
    LET ea == a.env[es[i + 1]]
        eb == b.env[es[i + 1]]
    IN <<IF IsNullish(ea) THEN NegInf ELSE ToNumber(ea),
         IF IsNullish(eb) THEN NegInf ELSE ToNumber(eb)>>

RECURSIVE dominatesFrom(_, _, _, _, _, _)
dominatesFrom(es, a, b, m, i, anyStrict) ==
    IF i >= Len(es) THEN anyStrict
    ELSE IF ~HasBit(m, i) THEN dominatesFrom(es, a, b, m, i + 1, anyStrict)
    ELSE LET p == domPair(es, a, b, i)
         IN IF JsLt(p[1], p[2]) THEN FALSE
            ELSE dominatesFrom(es, a, b, m, i + 1, anyStrict \/ JsGt(p[1], p[2]))

\* (mutant) anyStrict starts true: equal score vectors dominate each other
dominates_StartsStrict(es, a, b, m) == dominatesFrom(es, a, b, m, 0, TRUE)

\* TRUE iff miner a Pareto-dominates miner b on subset m
dominates(es, a, b, m) == dominatesFrom(es, a, b, m, 0, FALSE)

\* (mutant) the filter asks for a defined score on every environment of m
isCandidate_AllScores(es, miner, m) ==
    \A i \in 0..(Len(es) - 1) :
        HasBit(m, i) =>
            LET v == miner.env[es[i + 1]]
            IN ~IsNullish(v) /\ IsFinite(ToNumber(v))

\* (mutant) the filter keeps every miner
isCandidate_Always(es, miner, m) == TRUE

\* the filter of bestByPareto: a defined score on some environment of m
isCandidate(es, miner, m) ==
    \E i \in 0..(Len(es) - 1) :
        /\ HasBit(m, i)
        /\ LET v == miner.env[es[i + 1]]
           IN ~IsNullish(v) /\ IsFinite(ToNumber(v))

\* positions of the candidates, in list order
candidatesOf(es, ms, m) ==
    SelectSeq([i \in 1..Len(ms) |-> i], LAMBDA i : isCandidate(es, ms[i], m))

\* (mutant) the dominated candidates are not removed
nonDominatedOf_Unfiltered(es, ms, m) == candidatesOf(es, ms, m)

\* candidates no other candidate dominates, in list order
nonDominatedOf(es, ms, m) ==
    LET cand == candidatesOf(es, ms, m)
    IN SelectSeq(cand, LAMBDA a :
           \A k \in 1..Len(cand) :
               cand[k] = a \/ ~dominates(es, ms[cand[k]], ms[a], m))

\* the tie-break key of a miner: [w, p, s, model.toLowerCase()]
keyOf(es, miner, m) ==
    <<IF IsNullish(miner.weight) THEN NegInf ELSE ToNumber(miner.weight),
      IF IsNullish(miner.pts) THEN NegInf ELSE ToNumber(miner.pts),
      sumScores(es, miner, m),
      toLowerCase(miner.model)>>

\* (mutant) weight and pts compared in ascending order
compareTupleDesc_Ascending(a, b) ==
    IF JsStrictNe(a[1], b[1]) THEN JsSub(b[1], a[1])
    ELSE IF JsStrictNe(a[2], b[2]) THEN JsSub(b[2], a[2])
    ELSE IF JsStrictNe(a[3], b[3]) THEN JsSub(a[3], b[3])
    ELSE Num(localeCompare(b[4], a[4]))

compareTupleDesc(a, b) ==
    IF JsStrictNe(a[1], b[1]) THEN JsSub(a[1], b[1])
    ELSE IF JsStrictNe(a[2], b[2]) THEN JsSub(a[2], b[2])
    ELSE IF JsStrictNe(a[3], b[3]) THEN JsSub(a[3], b[3])
    ELSE Num(localeCompare(b[4], a[4]))

RECURSIVE bestFrom(_, _, _, _, _, _)
\* the selection loop over nonDominated[k..], best so far being `best`
bestFrom(es, ms, m, nd, k, best) ==
    IF k > Len(nd) THEN best
    ELSE IF best = 0 \/ JsGt(compareTupleDesc(keyOf(es, ms[nd[k]], m), keyOf(es, ms[best], m)), Num(0))
         THEN bestFrom(es, ms, m, nd, k + 1, nd[k])
         ELSE bestFrom(es, ms, m, nd, k + 1, best)

\* position of the winner of subset m, 0 when there is none
bestByPareto(es, ms, m) ==
    IF Len(ms) = 0 THEN 0
    ELSE IF Len(candidatesOf(es, ms, m)) = 0 THEN 0
    ELSE bestFrom(es, ms, m, nonDominatedOf(es, ms, m), 1, 0)

----------------------------------------------------------------------------
(* SubsetWinnersMatrix: environment inference and the miner records *)

IsAlnumUpper(c) == c \in DigitSet \/ c \in UpperSet

\* norm: String(s).toUpperCase().replace(/[^A-Z0-9]/g, '')
norm(s) == SelectSeq(toUpperCase(s), IsAlnumUpper)

startsWith(s, w) == Len(s) >= Len(w) /\ SubSeq(s, 1, Len(w)) = w

want == << <<"S", "A", "T">>, <<"A", "B", "D">>, <<"D", "E", "D">>, <<"E", "L", "R">>,
           <<"H", "V", "M">>, <<"M", "T", "H">>, <<"L", "1">>, <<"L", "2">>,
           <<"L", "3">>, <<"L", "4">> >>

exclude == { <<"U", "I", "D">>, <<"M", "O", "D", "E", "L">>, <<"R", "E", "V">>,
             <<"P", "T", "S">>, <<"E", "L", "I", "G">>, <<"W", "G", "T">>,
             <<"W", "E", "I", "G", "H", "T">>, <<"P", "O", "I", "N", "T", "S">>,
             <<"E", "L", "I", "G", "I", "B", "L", "E">> }

RECURSIVE normAll(_, _)
\* norm(c) of every column from names[k] on
normAll(names, k) ==
    IF k > Len(names) THEN <<>> ELSE <<norm(names[k])>> \o normAll(names, k + 1)

RECURSIVE findIndexFrom(_, _, _)
\* cols.findIndex(c => norm(c) === w || norm(c).startsWith(w)) over the
\* normalized names ncols, 1-based; 0 for -1
findIndexFrom(ncols, w, i) ==
    IF i > Len(ncols) THEN 0
    ELSE IF ncols[i] = w \/ startsWith(ncols[i], w) THEN i
    ELSE findIndexFrom(ncols, w, i + 1)

Includes(seq, x) == \E i \in 1..Len(seq) : seq[i] = x

RECURSIVE preferredFrom(_, _, _, _)
\* the loop over the preference list, from want[k]
preferredFrom(names, ncols, k, found) ==
    IF k > Len(want) THEN found
    ELSE LET i == findIndexFrom(ncols, want[k], 1)
         IN preferredFrom(names, ncols, k + 1,
                          IF i # 0 THEN Append(found, names[i]) ELSE found)

RECURSIVE scanFrom_NoExclusion(_, _, _, _)
\* scans without the set of meta-columns
scanFrom_NoExclusion(names, ncols, k, found) ==
    IF k > Len(names) THEN found
    ELSE LET c == names[k]
             nc == ncols[k]
         IN scanFrom_NoExclusion(names, ncols, k + 1,
                     IF /\ Len(nc) >= 2 /\ Len(nc) <= 6
                        /\ ~Includes(found, c)
                     THEN Append(found, c) ELSE found)

RECURSIVE scanFrom(_, _, _, _)
\* the fallback scan over all columns, from names[k]
scanFrom(names, ncols, k, found) ==
    IF k > Len(names) THEN found
    ELSE LET c == names[k]
             nc == ncols[k]
         IN scanFrom(names, ncols, k + 1,
                     IF /\ nc \notin exclude
                        /\ Len(nc) >= 2 /\ Len(nc) <= 6
                        /\ \A i \in 1..Len(nc) : IsAlnumUpper(nc[i])
                        /\ ~Includes(found, c)
                     THEN Append(found, c) ELSE found)

RECURSIVE dedupFrom(_, _, _)
\* Array.from(new Set(found)): first occurrences, in order
dedupFrom(seq, k, out) ==
    IF k > Len(seq) THEN out
    ELSE dedupFrom(seq, k + 1, IF Includes(out, seq[k]) THEN out ELSE Append(out, seq[k]))

\* the cap on the inferred environments
EnvCap == 8

\* returns every column found, without the cap
inferEnvs_Uncapped(s) ==
    IF s.t # "table" THEN <<>>
    ELSE LET ncols == normAll(s.columns, 1)
             pref == preferredFrom(s.columns, ncols, 1, <<>>)
             found == IF Len(pref) < 2 THEN scanFrom(s.columns, ncols, 1, pref) ELSE pref
         IN dedupFrom(found, 1, <<>>)

inferEnvs(s) ==
    IF s.t # "table" THEN <<>>
    ELSE LET ncols == normAll(s.columns, 1)
             pref == preferredFrom(s.columns, ncols, 1, <<>>)
             found == IF Len(pref) < 2 THEN scanFrom(s.columns, ncols, 1, pref) ELSE pref
             uniq == dedupFrom(found, 1, <<>>)
         IN SubSeq(uniq, 1, IF Len(uniq) < EnvCap THEN Len(uniq) ELSE EnvCap)

\* row[i] for the 1-based position i of a column; 0 is the code's -1
cellAt(row, i) == IF i = 0 \/ i > Len(row) THEN Undefined ELSE row[i]

\* `${Number.isFinite(uid) ? uid : -1}|${model}`
idOf(uid, model) ==
    (IF IsFinite(uid) THEN DecimalString(uid.v) ELSE <<"-", "1">>) \o <<"|">> \o model

\* one element of summary.rows.map(...)
minerOfRow(names, es, row) ==
    LET idx(name) == IndexIn(names, name)
        cUID == cellAt(row, idx(<<"U", "I", "D">>))
        cModel == cellAt(row, idx(<<"M", "o", "d", "e", "l">>))
        cPts == cellAt(row, idx(<<"P", "t", "s">>))
        cWgt == cellAt(row, idx(<<"W", "g", "t">>))
        uid == IF cUID.t = "num" THEN cUID ELSE ToNumber(cUID)
        model == IF IsNullish(cModel) THEN <<>> ELSE JsString(cModel)
    IN [id |-> idOf(uid, model),
        uid |-> IF IsFinite(uid) THEN uid ELSE Null,
        model |-> model,
        weight |-> IF IsNullish(cWgt) THEN Null ELSE ToNumber(cWgt),
        pts |-> IF IsNullish(cPts) THEN Null ELSE ToNumber(cPts),
        env |-> [e \in {es[i] : i \in 1..Len(es)} |->
                    parseScoreAny(IF idx(e) # 0 THEN cellAt(row, idx(e)) ELSE Null)]]

minersOf(s, es) ==
    IF s.t # "table" THEN <<>>
    ELSE [k \in 1..Len(s.rows) |-> minerOfRow(s.columns, es, s.rows[k])]

\* the bar metric of a winner; a non-finite value is shown as 0
valueOf(es, winner, m, metric) ==
    LET v == IF metric = "pts"
             THEN (IF IsNullish(winner.pts) THEN NegInf ELSE ToNumber(winner.pts))
             ELSE IF metric = "weight"
             THEN (IF IsNullish(winner.weight) THEN NegInf ELSE ToNumber(winner.weight))
             ELSE sumScores(es, winner, m)
    IN IF IsFinite(v) THEN v.v ELSE 0

\* the column pushed for subset m and its winner
subsetColumn(es, winner, m, metric) ==
    [kind |-> "subset",
     mask |-> m,
     size |-> popcount(m),
     value |-> valueOf(es, winner, m, metric),
     winnerId |-> winner.id,
     winnerLabel |-> winner.model,
     winnerWeight |-> winner.weight,
     winnerPts |-> winner.pts,
     envList |-> subsetEnvList(m, es)]

\* maxMask = 1 << N
maxMaskOf(es) == Shl1(Len(es))

\* where the loop of rawColumns starts: not at all when N = 0 or no miners
loopStart(es, ms) == IF Len(es) = 0 \/ Len(ms) = 0 THEN maxMaskOf(es) ELSE 1

\* orders by ascending value
compareColumns_ValueAscending(a, b) ==
    IF a.size # b.size THEN a.size - b.size
    ELSE IF a.value # b.value THEN a.value - b.value
    ELSE localeCompare(a.winnerLabel, b.winnerLabel)

\* the comparator of sortedColumns: |S| asc, value desc, winner label asc
compareColumns(a, b) ==
    IF a.size # b.size THEN a.size - b.size
    ELSE IF a.value # b.value THEN b.value - a.value
    ELSE localeCompare(a.winnerLabel, b.winnerLabel)

RECURSIVE insertColumn(_, _, _)
\* Array.prototype.sort is stable: c goes before the first element, from
\* out[j] on, that the comparator puts after it
insertColumn(out, c, j) ==
    IF j > Len(out) THEN Append(out, c)
    ELSE IF compareColumns(out[j], c) > 0
    THEN SubSeq(out, 1, j - 1) \o <<c>> \o SubSeq(out, j, Len(out))
    ELSE insertColumn(out, c, j + 1)

RECURSIVE sortFrom(_, _, _)
sortFrom(arr, k, out) ==
    IF k > Len(arr) THEN out ELSE sortFrom(arr, k + 1, insertColumn(out, arr[k], 1))

\* [...rawColumns].sort(comparator)
sortedColumnsOf(raw) == sortFrom(raw, 1, <<>>)

NoEntries == [x \in {} |-> 0]

RECURSIVE bySizeFrom_CountsOnce(_, _, _)
\* (mutant) the count of a size stays at one
bySizeFrom_CountsOnce(rest, k, bySize) ==
    IF k > Len(rest) THEN bySize
    ELSE LET c == rest[k]
             old == IF c.size \in DOMAIN bySize THEN bySize[c.size]
                    ELSE [value |-> 0, count |-> 0]
             new == [value |-> old.value + c.value, count |-> 1]
         IN bySizeFrom_CountsOnce(rest, k + 1,
                       [z \in DOMAIN bySize \cup {c.size} |->
                           IF z = c.size THEN new ELSE bySize[z]])

RECURSIVE bySizeFrom(_, _, _)
\* the Map size -> {value, count} over rest[k..]
bySizeFrom(rest, k, bySize) ==
    IF k > Len(rest) THEN bySize
    ELSE LET c == rest[k]
             old == IF c.size \in DOMAIN bySize THEN bySize[c.size]
                    ELSE [value |-> 0, count |-> 0]
             new == [value |-> old.value + c.value, count |-> old.count + 1]
         IN bySizeFrom(rest, k + 1,
                       [z \in DOMAIN bySize \cup {c.size} |->
                           IF z = c.size THEN new ELSE bySize[z]])

RECURSIVE othersFrom(_, _, _)
\* the entries of bySize by ascending size; one "other" column for each
\* with a positive count and a positive value
othersFrom(bySize, sizes, others) ==
    IF sizes = {} THEN others
    ELSE LET z == CHOOSE x \in sizes : \A y \in sizes : x <= y
             agg == bySize[z]
         IN othersFrom(bySize, sizes \ {z},
                       IF agg.count > 0 /\ agg.value > 0
                       THEN Append(others, [kind |-> "other", size |-> z,
                                            value |-> agg.value, count |-> agg.count])
                       ELSE others)

\* aggregates the whole tail into the bucket of its first size
columnsOf_OneBucket(sorted, m) ==
    IF Len(sorted) <= m THEN sorted
    ELSE LET top == SubSeq(sorted, 1, m)
             rest == SubSeq(sorted, m + 1, Len(sorted))
             one == [k \in 1..Len(rest) |-> [rest[k] EXCEPT !.size = rest[1].size]]
             bySize == bySizeFrom(one, 1, NoEntries)
         IN top \o othersFrom(bySize, DOMAIN bySize, <<>>)

\* columns: the first m sorted columns, then the tail aggregated per size
columnsOf(sorted, m) ==
    IF Len(sorted) <= m THEN sorted
    ELSE LET top == SubSeq(sorted, 1, m)
             rest == SubSeq(sorted, m + 1, Len(sorted))
             bySize == bySizeFrom(rest, 1, NoEntries)
         IN top \o othersFrom(bySize, DOMAIN bySize, <<>>)

PALETTE ==
    <<"#1f77b4", "#ff7f0e", "#2ca02c", "#d62728", "#9467bd",
      "#8c564b", "#e377c2", "#7f7f7f", "#bcbd22", "#17becf",
      "#a55194", "#393b79", "#637939", "#8c6d31", "#843c39",
      "#5254a3", "#6b6ecf", "#9c9ede", "#637939", "#b5cf6b">>

RECURSIVE colorMapFrom(_, _, _, _)
\* the loop of colorMap from sorted[k], i colors handed out so far
colorMapFrom(sorted, k, map, i) ==
    IF k > Len(sorted) THEN map
    ELSE LET c == sorted[k]
         IN IF c.kind = "subset" /\ c.winnerId \notin DOMAIN map
            THEN colorMapFrom(sorted, k + 1,
                              [w \in DOMAIN map \cup {c.winnerId} |->
                                  IF w = c.winnerId THEN PALETTE[(i % Len(PALETTE)) + 1]
                                  ELSE map[w]],
                              i + 1)
            ELSE colorMapFrom(sorted, k + 1, map, i)

\* colors the winners of the displayed columns only
colorMapOf_Displayed(sorted) == colorMapFrom(columnsOf(sorted, topM), 1, NoEntries, 0)

\* colorMap: winner id -> color, over the sorted list before truncation
colorMapOf(sorted) == colorMapFrom(sorted, 1, NoEntries, 0)

\* Math.max(5, Math.min(200, Number(e.target.value) || 0))
clampTopM(text) ==
    LET n == ToNumber(Str(text))
        v == IF IsFinite(n) THEN n.v ELSE 0
        lo == IF v < 200 THEN v ELSE 200
    IN IF lo > 5 THEN lo ELSE 5

----------------------------------------------------------------------------
(* PointsBySubsetSize: its copy of the dominance engine and the points     *)
(* aggregated per subset size                                              *)

RECURSIVE stackedSumFrom(_, _, _, _, _)
stackedSumFrom(es, miner, m, i, s) ==
    IF i >= Len(es) THEN Num(s)
    ELSE IF ~HasBit(m, i) THEN stackedSumFrom(es, miner, m, i + 1, s)
    ELSE LET v == miner.env[es[i + 1]]
         IN IF IsNullish(v) \/ ~IsFinite(v) THEN NegInf
            ELSE stackedSumFrom(es, miner, m, i + 1, s + v.v)

stackedSumScores(es, miner, m) == stackedSumFrom(es, miner, m, 0, 0)

RECURSIVE stackedDominatesFrom(_, _, _, _, _, _)
stackedDominatesFrom(es, a, b, m, i, anyStrict) ==
    IF i >= Len(es) THEN anyStrict
    ELSE IF ~HasBit(m, i) THEN stackedDominatesFrom(es, a, b, m, i + 1, anyStrict)
    ELSE LET ea == a.env[es[i + 1]]
             eb == b.env[es[i + 1]]
             va == IF IsNullish(ea) THEN NegInf ELSE ToNumber(ea)
             vb == IF IsNullish(eb) THEN NegInf ELSE ToNumber(eb)
         IN IF JsLt(va, vb) THEN FALSE
            ELSE stackedDominatesFrom(es, a, b, m, i + 1, anyStrict \/ JsGt(va, vb))

stackedDominates(es, a, b, m) == stackedDominatesFrom(es, a, b, m, 0, FALSE)

stackedCompareTupleDesc(a, b) ==
    IF JsStrictNe(a[1], b[1]) THEN JsSub(a[1], b[1])
    ELSE IF JsStrictNe(a[2], b[2]) THEN JsSub(a[2], b[2])
    ELSE IF JsStrictNe(a[3], b[3]) THEN JsSub(a[3], b[3])
    ELSE Num(localeCompare(b[4], a[4]))

\* miners.filter(...): positions of the miners with a defined score in m
stackedCandidates(es, ms, m) ==
    SelectSeq([i \in 1..Len(ms) |-> i], LAMBDA i :
        \E j \in 0..(Len(es) - 1) :
            /\ HasBit(m, j)
            /\ LET v == ms[i].env[es[j + 1]]
               IN ~IsNullish(v) /\ IsFinite(ToNumber(v)))

stackedNonDominated(es, ms, m) ==
    LET cand == stackedCandidates(es, ms, m)
    IN SelectSeq(cand, LAMBDA a :
           \A k \in 1..Len(cand) :
               cand[k] = a \/ ~stackedDominates(es, ms[cand[k]], ms[a], m))

stackedKey(es, miner, m) ==
    <<IF IsNullish(miner.weight) THEN NegInf ELSE ToNumber(miner.weight),
      IF IsNullish(miner.pts) THEN NegInf ELSE ToNumber(miner.pts),
      stackedSumScores(es, miner, m),
      toLowerCase(miner.model)>>

RECURSIVE stackedBestFrom(_, _, _, _, _, _)
stackedBestFrom(es, ms, m, nd, k, best) ==
    IF k > Len(nd) THEN best
    ELSE IF best = 0 \/ JsGt(stackedCompareTupleDesc(stackedKey(es, ms[nd[k]], m),
                                                     stackedKey(es, ms[best], m)), Num(0))
         THEN stackedBestFrom(es, ms, m, nd, k + 1, nd[k])
         ELSE stackedBestFrom(es, ms, m, nd, k + 1, best)

\* bestByPareto of PointsBySubsetSize.tsx: position of the winner, 0 for null
stackedBestByPareto(es, ms, m) ==
    IF Len(ms) = 0 THEN 0
    ELSE IF Len(stackedCandidates(es, ms, m)) = 0 THEN 0
    ELSE stackedBestFrom(es, ms, m, stackedNonDominated(es, ms, m), 1, 0)

\* (mutant) the points of a subset replace the points already counted
addPoints_Overwrites(byMiner, winner, pts) ==
    IF \E k \in 1..Len(byMiner) : byMiner[k].id = winner.id
    THEN [k \in 1..Len(byMiner) |->
            IF byMiner[k].id = winner.id THEN [byMiner[k] EXCEPT !.value = pts]
            ELSE byMiner[k]]
    ELSE Append(byMiner, [id |-> winner.id, label |-> winner.model, value |-> pts])

\* prev = byMiner.get(winner.id) || {id, label, value: 0}; prev.value += pts;
\* byMiner.set(winner.id, prev).  A Map is the sequence of its entries in
\* insertion order.
addPoints(byMiner, winner, pts) ==
    IF \E k \in 1..Len(byMiner) : byMiner[k].id = winner.id
    THEN [k \in 1..Len(byMiner) |->
            IF byMiner[k].id = winner.id THEN [byMiner[k] EXCEPT !.value = @ + pts]
            ELSE byMiner[k]]
    ELSE Append(byMiner, [id |-> winner.id, label |-> winner.model, value |-> pts])

RECURSIVE aggFrom(_, _, _, _)
\* the loop of aggBySize from mask m on; result[size] is the entry list of
\* the size's Map, empty when the Map has not been created
aggFrom(es, ms, m, result) ==
    IF m >= Shl1(Len(es)) THEN result
    ELSE LET size == popcount(m)
             winner == stackedBestByPareto(es, ms, m)
             pts == IF winner = 0 THEN NaN
                    ELSE IF IsNullish(ms[winner].pts) THEN Num(0)
                    ELSE ToNumber(ms[winner].pts)
         IN IF winner = 0 THEN aggFrom(es, ms, m + 1, result)
            ELSE IF ~IsFinite(pts) \/ pts.v <= 0 THEN aggFrom(es, ms, m + 1, result)
            ELSE aggFrom(es, ms, m + 1,
                         [result EXCEPT ![size] = addPoints(@, ms[winner], pts.v)])

\* aggBySize: size -> entries (winner id, label, points)
aggBySizeOf(es, ms) ==
    IF Len(es) = 0 \/ Len(ms) = 0 THEN [z \in 1..Len(es) |-> <<>>]
    ELSE aggFrom(es, ms, 1, [z \in 1..Len(es) |-> <<>>])

RECURSIVE totalOf(_, _)
\* for (const v of byMiner.values()) total += v.value, from entry k on
totalOf(byMiner, k) ==
    IF k > Len(byMiner) THEN 0 ELSE byMiner[k].value + totalOf(byMiner, k + 1)

\* totalsPerSize over sizes = 1..N
totalsPerSizeOf(agg, n) == [z \in 1..n |-> totalOf(agg[z], 1)]

----------------------------------------------------------------------------
(* SubsetWinnersLedger: its copy of the dominance engine, with the detail  *)
(* of each win                                                             *)

RECURSIVE ledgerSumFrom(_, _, _, _, _)
ledgerSumFrom(es, miner, m, i, s) ==
    IF i >= Len(es) THEN Num(s)
    ELSE IF ~HasBit(m, i) THEN ledgerSumFrom(es, miner, m, i + 1, s)
    ELSE LET v == miner.env[es[i + 1]]
         IN IF IsNullish(v) \/ ~IsFinite(v) THEN NegInf
            ELSE ledgerSumFrom(es, miner, m, i + 1, s + v.v)

ledgerSumScores(es, miner, m) == ledgerSumFrom(es, miner, m, 0, 0)

RECURSIVE ledgerDominatesFrom(_, _, _, _, _, _)
ledgerDominatesFrom(es, a, b, m, i, anyStrict) ==
    IF i >= Len(es) THEN anyStrict
    ELSE IF ~HasBit(m, i) THEN ledgerDominatesFrom(es, a, b, m, i + 1, anyStrict)
    ELSE LET ea == a.env[es[i + 1]]
             eb == b.env[es[i + 1]]
             va == IF IsNullish(ea) THEN NegInf ELSE ToNumber(ea)
             vb == IF IsNullish(eb) THEN NegInf ELSE ToNumber(eb)
         IN IF JsLt(va, vb) THEN FALSE
            ELSE ledgerDominatesFrom(es, a, b, m, i + 1, anyStrict \/ JsGt(va, vb))

ledgerDominates(es, a, b, m) == ledgerDominatesFrom(es, a, b, m, 0, FALSE)

\* (mutant) the model names compared in descending order
ledgerCompareTupleDesc_ModelDescending(a, b) ==
    IF JsStrictNe(a[1], b[1]) THEN JsSub(a[1], b[1])
    ELSE IF JsStrictNe(a[2], b[2]) THEN JsSub(a[2], b[2])
    ELSE IF JsStrictNe(a[3], b[3]) THEN JsSub(a[3], b[3])
    ELSE Num(localeCompare(a[4], b[4]))

ledgerCompareTupleDesc(a, b) ==
    IF JsStrictNe(a[1], b[1]) THEN JsSub(a[1], b[1])
    ELSE IF JsStrictNe(a[2], b[2]) THEN JsSub(a[2], b[2])
    ELSE IF JsStrictNe(a[3], b[3]) THEN JsSub(a[3], b[3])
    ELSE Num(localeCompare(b[4], a[4]))

\* miners.filter(...): positions of the miners with a defined score in m
ledgerCandidates(es, ms, m) ==
    SelectSeq([i \in 1..Len(ms) |-> i], LAMBDA i :
        \E j \in 0..(Len(es) - 1) :
            /\ HasBit(m, j)
            /\ LET v == ms[i].env[es[j + 1]]
               IN ~IsNullish(v) /\ IsFinite(ToNumber(v)))

ledgerNonDominated(es, ms, m) ==
    LET cand == ledgerCandidates(es, ms, m)
    IN SelectSeq(cand, LAMBDA a :
           \A k \in 1..Len(cand) :
               cand[k] = a \/ ~ledgerDominates(es, ms[cand[k]], ms[a], m))

\* key and buildKey: [w, p, s, model.toLowerCase()]
ledgerKey(es, miner, m) ==
    <<IF IsNullish(miner.weight) THEN NegInf ELSE ToNumber(miner.weight),
      IF IsNullish(miner.pts) THEN NegInf ELSE ToNumber(miner.pts),
      ledgerSumScores(es, miner, m),
      toLowerCase(miner.model)>>

RECURSIVE ledgerBestFrom(_, _, _, _, _, _)
ledgerBestFrom(es, ms, m, nd, k, best) ==
    IF k > Len(nd) THEN best
    ELSE IF best = 0 \/ JsGt(ledgerCompareTupleDesc(ledgerKey(es, ms[nd[k]], m),
                                                    ledgerKey(es, ms[best], m)), Num(0))
         THEN ledgerBestFrom(es, ms, m, nd, k + 1, nd[k])
         ELSE ledgerBestFrom(es, ms, m, nd, k + 1, best)

\* Math.max(...vals): NaN when a value is NaN
JsMax(vals) ==
    IF \E k \in 1..Len(vals) : vals[k].t = "nan" THEN NaN
    ELSE IF Len(vals) = 0 THEN NegInf
    ELSE vals[CHOOSE k \in 1..Len(vals) : \A j \in 1..Len(vals) : ~JsLt(vals[k], vals[j])]

\* vals.slice().sort((a, b) => a.localeCompare(b))[0]: the sort is stable
firstSorted(vals) ==
    vals[CHOOSE k \in 1..Len(vals) :
            /\ \A j \in 1..Len(vals) : localeCompare(vals[j], vals[k]) >= 0
            /\ \A j \in 1..(k - 1) : localeCompare(vals[j], vals[k]) > 0]

dims == <<"weight", "pts", "sum", "model">>

RECURSIVE tieBreakFrom(_, _)
\* the loop over dims from dimension d on (d counted from 1)
tieBreakFrom(allKeys, d) ==
    IF d > Len(dims) THEN "-"
    ELSE IF d < 4
    THEN LET vals == [k \in 1..Len(allKeys) |-> allKeys[k][d]]
             max == JsMax(vals)
             countMax == Cardinality({k \in 1..Len(vals) : ~JsStrictNe(vals[k], max)})
         IN IF countMax = 1 THEN dims[d] ELSE tieBreakFrom(allKeys, d + 1)
    ELSE LET vals == [k \in 1..Len(allKeys) |-> allKeys[k][4]]
             min == firstSorted(vals)
             countMin == Cardinality({k \in 1..Len(vals) : vals[k] = min})
         IN IF countMin = 1 THEN "model" ELSE tieBreakFrom(allKeys, d + 1)

\* the tie-break dimension reported for the non-dominated list nd
tieBreakOf(es, ms, m, nd) ==
    IF Len(nd) > 1
    THEN tieBreakFrom([k \in 1..Len(nd) |-> ledgerKey(es, ms[nd[k]], m)], 1)
    ELSE "-"

\* (mutant) the edges counted among the non-dominated miners only
domEdgesOf_NonDominated(es, ms, m, cand, best) ==
    LET nd == ledgerNonDominated(es, ms, m)
    IN Cardinality({k \in 1..Len(nd) :
           nd[k] # best /\ ledgerDominates(es, ms[best], ms[nd[k]], m)})

\* the number of candidates the winner dominates
domEdgesOf(es, ms, m, cand, best) ==
    Cardinality({k \in 1..Len(cand) :
        cand[k] # best /\ ledgerDominates(es, ms[best], ms[cand[k]], m)})

NoWinner == [winner |-> 0, domEdges |-> 0, tieBreak |-> "-", winMode |-> "-"]

\* computeWinnerDetail without meanAcc01, which no other field depends on;
\* winner is a position in the miner list, 0 for null
computeWinnerDetail(es, ms, m) ==
    LET cand == ledgerCandidates(es, ms, m)
    IN IF Len(cand) = 0 THEN NoWinner
       ELSE LET nd == ledgerNonDominated(es, ms, m)
                best == ledgerBestFrom(es, ms, m, nd, 1, 0)
            IN IF best = 0 THEN NoWinner
               ELSE LET domEdges == domEdgesOf(es, ms, m, cand, best)
                    IN [winner |-> best,
                        domEdges |-> domEdges,
                        tieBreak |-> tieBreakOf(es, ms, m, nd),
                        winMode |-> IF domEdges > 0 THEN "dom" ELSE "mean"]

----------------------------------------------------------------------------
(* Table snapshots the summary endpoint may deliver *)

cUID == <<"U", "I", "D">>
cModel == <<"M", "o", "d", "e", "l">>
cSAT == <<"S", "A", "T">>
cABD == <<"A", "B", "D">>
cPts == <<"P", "t", "s">>
cWgt == <<"W", "g", "t">>

Table(names, rows) == [t |-> "table", columns |-> names, rows |-> rows]

RECURSIVE RowsOf(_, _)
\* the row list of the bodies f[1..n]; the UID cell is the row's position
RowsOf(f, n) ==
    IF n = 0 THEN <<>> ELSE Append(RowsOf(f, n - 1), <<Num(n)>> \o f[n])

ScoreCells == {Null} \cup {Num(v) : v \in 1..MaxScore}

\* bodies <<Model, SAT, ABD, Pts, Wgt>> that vary the scores and the weight
ScoreBodies ==
    {<<Str(<<"m">>), s1, s2, Null, w>> : s1 \in ScoreCells, s2 \in ScoreCells, w \in {Num(1), Num(2)}}

\* bodies <<Model, SAT, ABD, Pts, Wgt>> that vary the tie-break key: the
\* model name, Pts, and Wgt (absent, numeric, or a non-numeric string)
KeyBodies ==
    {<<Str(n), Num(1), Num(1), p, w>> :
        n \in {<<"a">>, <<"A">>, <<"b">>},
        p \in {Null, Num(1)},
        w \in {Null, Num(1), Str(<<"x">>)}}

\* bodies <<Model, SAT>> of a one-environment table, cells as the fallback
\* endpoint spells them
DecoratedBodies ==
    {<<Str(<<"a">>), s>> : s \in {Null, Num(1), Str(<<"2", "*">>), Str(<<"1", "/", "9">>), Str(<<"x">>)}}

\* the scenario of three miners over SAT and ABD
Scenario ==
    Table(<<cUID, cModel, cSAT, cABD, cPts, cWgt>>,
          << <<Num(1), Str(<<"M", "1">>), Num(80), Num(60), Null, Num(1)>>,
             <<Num(2), Str(<<"M", "2">>), Num(60), Num(90), Null, Num(1)>>,
             <<Num(3), Str(<<"M", "3">>), Num(50), Num(50), Null, Num(5)>> >>)

\* the request in flight answers with a table of at most MaxRows rows over
\* the bodies
Delivers(names, bodies) ==
    \E n \in 0..MaxRows : \E f \in [1..n -> bodies] :
        pending = Table(names, RowsOf(f, n))

cDED == <<"D", "E", "D">>
cELR == <<"E", "L", "R">>

\* most rows of a generated four-environment table
ViewRows == 2

\* bodies <<Model, SAT, ABD, DED, ELR, Pts, Wgt>> of a four-environment
\* table: fifteen subsets, more than the smallest display cap
ViewBodies ==
    {<<Str(n), Num(s1), Num(1), s3, Num(1), p, Num(1)>> :
        n \in {<<"a">>, <<"b">>},
        s1 \in 1..2,
        s3 \in {Null, Num(1)},
        p \in {Null, Num(2)}}

\* column lists are put together from these groups, each one present or not:
\* the ten preferred environments (one of them also in another spelling that
\* comes first), meta-columns, and other columns the fallback scan accepts,
\* rejects or meets twice
ColumnGroups ==
    << <<cUID, cModel>>,
       << <<"s", "a", "t", "-", "2">> >>,
       <<cSAT>>,
       <<cABD>>,
       <<cDED, cELR, <<"H", "V", "M">>, <<"M", "T", "H">> >>,
       << <<"L", "1">>, <<"L", "2">> >>,
       << <<"L", "3">>, <<"L", "4">> >>,
       <<cPts, <<"W", "e", "i", "g", "h", "t">> >>,
       << <<"S", "c", "o", "r", "e">> >>,
       << <<"X">>, <<"A", "c", "c", "u", "r", "a", "c", "y">>, <<"a", " ", "b">> >>,
       << <<"S", "c", "o", "r", "e">> >> >>

RECURSIVE HeaderOf(_, _)
\* the column list of the groups in G, from group g on
HeaderOf(G, g) ==
    IF g > Len(ColumnGroups) THEN <<>>
    ELSE (IF g \in G THEN ColumnGroups[g] ELSE <<>>) \o HeaderOf(G, g + 1)

\* rows <<UID, Model, SAT, ABD, Pts, Wgt>> with cells as the endpoints may
\* spell them: absent, numeric, numeric text, decorated text, other text
LooseRows ==
    {<<u, Str(<<"a">>), s1, s2, p, w>> :
        u \in {Null, Num(7), Str(<<>>), Str(<<"x">>), Str(<<"7">>)},
        s1 \in {Null, Num(1), Str(<<"2", "*">>), Str(<<"1", "/", "9">>), Str(<<"x">>)},
        s2 \in {Null, Num(2)},
        p \in {Null, Num(1), Str(<<"x">>)},
        w \in {Null, Num(1), Str(<<"2", "*">>)}}

\* a row with a number in every cell
PlainRow == <<Num(9), Str(<<"b">>), Num(1), Num(1), Num(1), Num(1)>>

\* three miners over four environments: a leads on SAT, b on ABD, and c,
\* with the most points, is undominated on {SAT, ABD} only
ThreeFronts ==
    Table(<<cUID, cModel, cSAT, cABD, cDED, cELR, cPts, cWgt>>,
          << <<Num(1), Str(<<"a">>), Num(3), Num(1), Num(1), Num(1), Null, Num(1)>>,
             <<Num(2), Str(<<"b">>), Num(1), Num(3), Num(1), Num(1), Null, Num(1)>>,
             <<Num(3), Str(<<"c">>), Num(2), Num(2), Null, Null, Num(2), Num(1)>> >>)

\* most rows of a table generated for the stacked view
StackRows == 2

\* bodies <<Model, SAT, ABD, Pts, Wgt>> that vary the winner of a subset and
\* its Pts cell: absent, negative, positive, non-numeric text
StackBodies ==
    {<<Str(n), s1, Num(s2), p, Num(1)>> :
        n \in {<<"a">>, <<"b">>},
        s1 \in ScoreCells,
        s2 \in 1..MaxScore,
        p \in {Null, Num(-1), Num(2), Str(<<"x">>)}}

BarMetrics == {"pts", "weight", "sum"}

\* texts typed into the "Show Top M Subsets" input
TopMInputs == {<<>>, <<"x">>, <<"7">>, <<"1", "5">>, <<"2", "5", "0">>}

\* most calls of fetchData in flight at once: the one of the mount and the
\* ticks of the 30 s interval that find an earlier call unfinished
MaxFetches == 2

Fetches == 1..MaxFetches

\* useEffect on mount: fetchData() has been called once and awaits the
\* primary endpoint
MountFetch == [i \in Fetches |-> IF i = 1 THEN "primary" ELSE "idle"]

\* most calls of fetchData in one behaviour
MaxStarts == 3

\* The hook keeps no record of its refreshes; the properties need one: how
\* many calls of fetchData have started, the start number of each call, the
\* start number of the call whose response setData was last given (held),
\* the largest start number of a call that succeeded (newest), and whether a
\* call has invoked a state setter after the unmount (late).
MountLog ==
    [started |-> 1, at |-> [i \in Fetches |-> IF i = 1 THEN 1 ELSE 0],
     held |-> 0, newest |-> 0, late |-> FALSE]

Started(log, i) == [log EXCEPT !.started = @ + 1, !.at[i] = log.started + 1]

Succeeded(log, i) ==
    [log EXCEPT !.held = log.at[i],
                !.newest = IF log.at[i] > @ THEN log.at[i] ELSE @]

----------------------------------------------------------------------------
(* The component as a state machine *)

Init ==
    /\ \/ pending = Scenario
       \/ Delivers(<<cUID, cModel, cSAT, cABD, cPts, cWgt>>, ScoreBodies)
       \/ Delivers(<<cUID, cModel, cSAT, cABD, cPts, cWgt>>, KeyBodies)
       \/ Delivers(<<cUID, cModel, cSAT>>, DecoratedBodies)
       \/ Delivers(<<cUID, cModel>>, {<<Str(<<"a">>)>>})
    /\ summary = Null
    /\ envs = <<>>
    /\ miners = <<>>
    /\ barMetric = "pts"
    /\ mask = 1
    /\ cols = <<>>
    /\ topM = 30
    /\ loading = TRUE
    /\ error = Null
    /\ fetches = MountFetch
    /\ mounted = TRUE
    /\ refreshLog = MountLog
    /\ sortedColumns = <<>>
    /\ columns = <<>>
    /\ colorMap = NoEntries

\* rawColumns has run to completion for the current inputs
Rendered == mask >= maxMaskOf(envs)

\* the memoized values that follow rawColumns in a render: sortedColumns,
\* then columns and colorMap; they are empty while the loop is running
Renders ==
    /\ sortedColumns' = IF mask' >= maxMaskOf(envs') THEN sortedColumnsOf(cols') ELSE <<>>
    /\ columns' = columnsOf(sortedColumns', topM')
    /\ colorMap' = colorMapOf(sortedColumns')

\* setData(summary): the response arrives; envs and miners are recomputed and
\* rawColumns starts over
SetData ==
    /\ Rendered
    /\ pending # Null
    /\ fetches[1] = "primary"
    /\ fetches' = [fetches EXCEPT ![1] = "idle"]
    /\ refreshLog' = Succeeded(refreshLog, 1)
    /\ UNCHANGED mounted
    /\ loading' = FALSE
    /\ error' = Null
    /\ summary' = pending
    /\ pending' = Null
    /\ envs' = inferEnvs(pending)
    /\ miners' = minersOf(pending, envs')
    /\ mask' = loopStart(envs', miners')
    /\ cols' = <<>>
    /\ UNCHANGED <<barMetric, topM>>
    /\ Renders

\* setBarMetric(e.target.value): rawColumns starts over
SetBarMetric ==
    /\ Rendered
    /\ \E b \in BarMetrics \ {barMetric} : barMetric' = b
    /\ mask' = loopStart(envs, miners)
    /\ cols' = <<>>
    /\ UNCHANGED <<pending, summary, envs, miners, topM, loading, error, fetches, mounted, refreshLog>>
    /\ Renders

\* one iteration of the loop of rawColumns
RawColumnsStep ==
    /\ ~Rendered
    /\ LET winner == bestByPareto(envs, miners, mask)
       IN cols' = IF winner = 0 THEN cols
                  ELSE Append(cols, subsetColumn(envs, miners[winner], mask, barMetric))
    /\ mask' = mask + 1
    /\ UNCHANGED <<pending, summary, envs, miners, barMetric, topM, loading, error, fetches, mounted, refreshLog>>
    /\ Renders

Next == SetData \/ SetBarMetric \/ RawColumnsStep

Spec == Init /\ [][Next]_vars

\* what the component shows below its controls: the matrix, the
\* insufficient-data text, "Loading..." before the first snapshot, or nothing
\* while a later refresh is running
matrixView ==
    IF ~loading /\ summary # Null /\ Len(envs) >= 2 /\ Len(columns) > 0 THEN "matrix"
    ELSE IF ~loading THEN "insufficient"
    ELSE IF summary = Null THEN "loading"
    ELSE "blank"

----------------------------------------------------------------------------
(* The component over four environments, with the display cap *)

ViewInit ==
    /\ \/ pending = ThreeFronts
       \/ \E n \in 0..ViewRows : \E f \in [1..n -> ViewBodies] :
             pending = Table(<<cUID, cModel, cSAT, cABD, cDED, cELR, cPts, cWgt>>, RowsOf(f, n))
    /\ summary = Null
    /\ envs = <<>>
    /\ miners = <<>>
    /\ barMetric = "pts"
    /\ mask = 1
    /\ cols = <<>>
    /\ topM = 30
    /\ loading = TRUE
    /\ error = Null
    /\ fetches = MountFetch
    /\ mounted = TRUE
    /\ refreshLog = MountLog
    /\ sortedColumns = <<>>
    /\ columns = <<>>
    /\ colorMap = NoEntries

\* setTopM(...) from the input's onChange
SetTopM ==
    /\ Rendered
    /\ \E text \in TopMInputs : topM' = clampTopM(text)
    /\ UNCHANGED <<pending, summary, envs, miners, barMetric, mask, cols, loading, error, fetches, mounted, refreshLog>>
    /\ Renders

ViewNext == SetData \/ SetBarMetric \/ RawColumnsStep \/ SetTopM

ViewSpec == ViewInit /\ [][ViewNext]_vars

----------------------------------------------------------------------------
(* The component over loosely typed rows, with and without a UID column *)

MapInit ==
    /\ \E r \in LooseRows :
          \/ pending = Table(<<cUID, cModel, cSAT, cABD, cPts, cWgt>>, <<r, PlainRow>>)
          \/ pending = Table(<<cModel, cSAT, cABD, cPts, cWgt>>, <<Tail(r), Tail(PlainRow)>>)
    /\ summary = Null
    /\ envs = <<>>
    /\ miners = <<>>
    /\ barMetric = "pts"
    /\ mask = 1
    /\ cols = <<>>
    /\ topM = 30
    /\ loading = TRUE
    /\ error = Null
    /\ fetches = MountFetch
    /\ mounted = TRUE
    /\ refreshLog = MountLog
    /\ sortedColumns = <<>>
    /\ columns = <<>>
    /\ colorMap = NoEntries

MapSpec == MapInit /\ [][Next]_vars

----------------------------------------------------------------------------
(* useValidatorSummary: refreshes that succeed or fail on either endpoint *)

\* the snapshots a refresh may end with: the three-miner scenario, a table
\* of one miner, a table over a single environment, a table without rows
Payloads ==
    {Scenario,
     Table(<<cUID, cModel, cSAT, cABD, cPts, cWgt>>,
           << <<Num(1), Str(<<"a">>), Num(1), Null, Num(1), Num(1)>> >>),
     Table(<<cUID, cModel, cSAT>>, << <<Num(1), Str(<<"a">>), Num(1)>> >>),
     Table(<<cUID, cModel, cSAT, cABD, cPts, cWgt>>, <<>>)}

\* the messages of the errors fetch and the status check throw
Messages == {Str("HTTP 503"), Str("Failed to fetch")}

HookInit ==
    /\ pending = Null
    /\ summary = Null
    /\ envs = <<>>
    /\ miners = <<>>
    /\ barMetric = "pts"
    /\ mask = 1
    /\ cols = <<>>
    /\ topM = 30
    /\ loading = TRUE
    /\ error = Null
    /\ fetches = MountFetch
    /\ mounted = TRUE
    /\ refreshLog = MountLog
    /\ sortedColumns = <<>>
    /\ columns = <<>>
    /\ colorMap = NoEntries

\* a tick of the interval calls fetchData: setLoading(true), setError(null),
\* then the request to the primary endpoint is awaited
StartFetch(i) ==
    /\ Rendered
    /\ mounted
    /\ refreshLog.started < MaxStarts
    /\ fetches[i] = "idle"
    /\ fetches' = [fetches EXCEPT ![i] = "primary"]
    /\ refreshLog' = Started(refreshLog, i)
    /\ loading' = TRUE
    /\ error' = Null
    /\ UNCHANGED <<pending, summary, envs, miners, barMetric, mask, cols, topM, mounted,
                   sortedColumns, columns, colorMap>>

\* setData(t) followed by the render it causes up to the start of rawColumns
Receives(t) ==
    /\ summary' = t
    /\ envs' = inferEnvs(t)
    /\ miners' = minersOf(t, envs')
    /\ mask' = loopStart(envs', miners')
    /\ cols' = <<>>

\* requests the fallback endpoint after the primary one has answered
PrimaryOk_AlsoFallback(i) ==
    /\ Rendered
    /\ mounted
    /\ fetches[i] = "primary"
    /\ fetches' = [fetches EXCEPT ![i] = "fallback"]
    /\ refreshLog' = Succeeded(refreshLog, i)
    /\ \E t \in Payloads : Receives(t)
    /\ error' = Null
    /\ loading' = FALSE
    /\ UNCHANGED <<pending, barMetric, topM, mounted>>
    /\ Renders

\* the primary endpoint answers: setData, setError(null), setLoading(false)
PrimaryOk(i) ==
    /\ Rendered
    /\ mounted
    /\ fetches[i] = "primary"
    /\ fetches' = [fetches EXCEPT ![i] = "idle"]
    /\ refreshLog' = Succeeded(refreshLog, i)
    /\ \E t \in Payloads : Receives(t)
    /\ error' = Null
    /\ loading' = FALSE
    /\ UNCHANGED <<pending, barMetric, topM, mounted>>
    /\ Renders

\* the primary request throws: the fallback endpoint is tried
PrimaryFail(i) ==
    /\ Rendered
    /\ fetches[i] = "primary"
    /\ fetches' = [fetches EXCEPT ![i] = "fallback"]
    /\ UNCHANGED <<pending, summary, envs, miners, barMetric, mask, cols, topM, loading, error,
                   mounted, refreshLog, sortedColumns, columns, colorMap>>

\* the fallback endpoint answers: setData, setError(null), setLoading(false)
FallbackOk(i) ==
    /\ Rendered
    /\ mounted
    /\ fetches[i] = "fallback"
    /\ fetches' = [fetches EXCEPT ![i] = "idle"]
    /\ refreshLog' = Succeeded(refreshLog, i)
    /\ \E t \in Payloads : Receives(t)
    /\ error' = Null
    /\ loading' = FALSE
    /\ UNCHANGED <<pending, barMetric, topM, mounted>>
    /\ Renders

\* drops the snapshot when both endpoints fail
FallbackFail_ClearsData(i) ==
    /\ Rendered
    /\ mounted
    /\ fetches[i] = "fallback"
    /\ fetches' = [fetches EXCEPT ![i] = "idle"]
    /\ \E m \in Messages : error' = m
    /\ loading' = FALSE
    /\ Receives(Null)
    /\ UNCHANGED <<pending, barMetric, topM, mounted, refreshLog>>
    /\ Renders

\* the fallback request throws too: setError(message), setLoading(false)
FallbackFail(i) ==
    /\ Rendered
    /\ mounted
    /\ fetches[i] = "fallback"
    /\ fetches' = [fetches EXCEPT ![i] = "idle"]
    /\ \E m \in Messages : error' = m
    /\ loading' = FALSE
    /\ UNCHANGED <<pending, summary, envs, miners, barMetric, mask, cols, topM,
                   mounted, refreshLog, sortedColumns, columns, colorMap>>

HookNext ==
    \/ \E i \in Fetches : StartFetch(i)
    \/ \E i \in Fetches : PrimaryOk(i)
    \/ \E i \in Fetches : PrimaryFail(i)
    \/ \E i \in Fetches : FallbackOk(i)
    \/ \E i \in Fetches : FallbackFail(i)
    \/ RawColumnsStep

HookSpec == HookInit /\ [][HookNext]_vars

\* the component unmounts: the effect's cleanup runs clearInterval(id);
\* fetchData holds no flag and no abort signal, so the calls in flight go on
Unmount ==
    /\ Rendered
    /\ mounted
    /\ mounted' = FALSE
    /\ UNCHANGED <<pending, summary, envs, miners, barMetric, mask, cols, topM, loading, error,
                   fetches, refreshLog, sortedColumns, columns, colorMap>>

\* a call of fetchData ends after the unmount, on a response or on the second
\* failure: it calls setData and setError or setError alone, then
\* setLoading(false); the calls are recorded in refreshLog.late, the state of
\* the unmounted component is left as it was
SettleUnmounted(i) ==
    /\ Rendered
    /\ ~mounted
    /\ fetches[i] # "idle"
    /\ fetches' = [fetches EXCEPT ![i] = "idle"]
    /\ refreshLog' = [refreshLog EXCEPT !.late = TRUE]
    /\ UNCHANGED <<pending, summary, envs, miners, barMetric, mask, cols, topM, loading, error,
                   mounted, sortedColumns, columns, colorMap>>

UnmountNext ==
    \/ HookNext
    \/ Unmount
    \/ \E i \in Fetches : SettleUnmounted(i)

UnmountSpec == HookInit /\ [][UnmountNext]_vars

----------------------------------------------------------------------------
(* Environment inference over column lists: the snapshot has no rows *)

EnvInit ==
    /\ \E G \in SUBSET (1..Len(ColumnGroups)) : pending = Table(HeaderOf(G, 1), <<>>)
    /\ summary = Null
    /\ envs = <<>>
    /\ miners = <<>>
    /\ barMetric = "pts"
    /\ mask = 1
    /\ cols = <<>>
    /\ topM = 30
    /\ loading = TRUE
    /\ error = Null
    /\ fetches = MountFetch
    /\ mounted = TRUE
    /\ refreshLog = MountLog
    /\ sortedColumns = <<>>
    /\ columns = <<>>
    /\ colorMap = NoEntries

EnvNext == SetData

EnvSpec == EnvInit /\ [][EnvNext]_vars

----------------------------------------------------------------------------
(* The stacked view's inputs: two environments, Pts cells of every kind *)

StackInit ==
    /\ \E n \in 0..StackRows : \E f \in [1..n -> StackBodies] :
          pending = Table(<<cUID, cModel, cSAT, cABD, cPts, cWgt>>, RowsOf(f, n))
    /\ summary = Null
    /\ envs = <<>>
    /\ miners = <<>>
    /\ barMetric = "pts"
    /\ mask = 1
    /\ cols = <<>>
    /\ topM = 30
    /\ loading = TRUE
    /\ error = Null
    /\ fetches = MountFetch
    /\ mounted = TRUE
    /\ refreshLog = MountLog
    /\ sortedColumns = <<>>
    /\ columns = <<>>
    /\ colorMap = NoEntries

StackNext == SetData

StackSpec == StackInit /\ [][StackNext]_vars

----------------------------------------------------------------------------
(* The ledger's inputs: tables that vary the scores, and tables of equal   *)
(* scores that vary the tie-break key                                      *)

LedgerInit ==
    /\ \/ Delivers(<<cUID, cModel, cSAT, cABD, cPts, cWgt>>, ScoreBodies)
       \/ Delivers(<<cUID, cModel, cSAT, cABD, cPts, cWgt>>, KeyBodies)
    /\ summary = Null
    /\ envs = <<>>
    /\ miners = <<>>
    /\ barMetric = "pts"
    /\ mask = 1
    /\ cols = <<>>
    /\ topM = 30
    /\ loading = TRUE
    /\ error = Null
    /\ fetches = MountFetch
    /\ mounted = TRUE
    /\ refreshLog = MountLog
    /\ sortedColumns = <<>>
    /\ columns = <<>>
    /\ colorMap = NoEntries

LedgerNext == SetData

LedgerSpec == LedgerInit /\ [][LedgerNext]_vars

----------------------------------------------------------------------------
(* Vocabulary of the properties, stated on the state and independent of    *)
(* the engine's loops                                                      *)

\* the masks of the non-empty subsets of the inferred environments
Masks == 1..(maxMaskOf(envs) - 1)

\* the masks the loop of rawColumns has already been through
EvaluatedMasks == 1..(mask - 1)

\* the environments of subset m
EnvsOfMask(m) == {envs[i + 1] : i \in {j \in 0..(Len(envs) - 1) : (m \div (2 ^ j)) % 2 = 1}}

MinerIds == 1..Len(miners)

\* the miner has a score on environment e
Present(i, e) == miners[i].env[e].t = "num"

\* the miner has a score on some environment of subset m
HasScoreOn(i, m) == \E e \in EnvsOfMask(m) : Present(i, e)

\* Pareto dominance on subset m, a missing score counting below every score
ParetoDominates(a, b, m) ==
    /\ \A e \in EnvsOfMask(m) :
          ~Present(b, e) \/ (Present(a, e) /\ miners[a].env[e].v >= miners[b].env[e].v)
    /\ \E e \in EnvsOfMask(m) :
          Present(a, e) /\ (~Present(b, e) \/ miners[a].env[e].v > miners[b].env[e].v)

\* the candidates of subset m that no other candidate dominates
ParetoFront(m) ==
    {i \in MinerIds :
        /\ HasScoreOn(i, m)
        /\ \A j \in MinerIds : (j # i /\ HasScoreOn(j, m)) => ~ParetoDominates(j, i, m)}

RECURSIVE SumOfScores(_, _, _)
\* the sum of miner i's scores over the environments in the set es
SumOfScores(i, es, acc) ==
    IF es = {} THEN acc
    ELSE LET e == CHOOSE x \in es : TRUE
         IN SumOfScores(i, es \ {e}, acc + miners[i].env[e].v)

SumOver(i, m) == SumOfScores(i, EnvsOfMask(m), 0)

\* the miner a pushed column names as winner (ids are unique per snapshot)
WinnerOf(c) == CHOOSE i \in MinerIds : miners[i].id = c.winnerId

Columns == {cols[k] : k \in 1..Len(cols)}

----------------------------------------------------------------------------
(* C1 *)

\* C1: the winner pushed for a subset is a candidate of the subset that no
\* other candidate Pareto-dominates on it, whatever the weights and points.
C1_WinnerIsNonDominated ==
    \A c \in Columns :
        /\ \E i \in MinerIds : miners[i].id = c.winnerId
        /\ WinnerOf(c) \in ParetoFront(c.mask)

\* a subset whose winner has a smaller weight than a dominated candidate
C1_Witness ==
    \E c \in Columns : \E j \in MinerIds :
        /\ HasScoreOn(j, c.mask)
        /\ j \notin ParetoFront(c.mask)
        /\ miners[j].weight.t = "num"
        /\ miners[WinnerOf(c)].weight.t = "num"
        /\ miners[j].weight.v > miners[WinnerOf(c)].weight.v

----------------------------------------------------------------------------
(* C2 *)

\* The ranking values of the claim: a weight or pts that is not a number
\* (absent, or a cell that is not numeric) ranks below every number.
Ranked(x) == IF x.t = "num" THEN <<1, x.v>> ELSE <<0, 0>>

\* the sum over exactly the subset's environments; below every sum when a
\* score is missing
RankedSum(i, m) ==
    IF \A e \in EnvsOfMask(m) : Present(i, e)
    THEN <<1, SumOver(i, m)>>
    ELSE <<0, 0>>

PairLess(x, y) == x[1] < y[1] \/ (x[1] = y[1] /\ x[2] < y[2])

\* miner j ranks strictly above miner i on subset m: higher weight, then
\* higher pts, then higher sum, then the earlier lower-cased model name
RanksAbove(j, i, m) ==
    LET wi == Ranked(miners[i].weight)  wj == Ranked(miners[j].weight)
        pi == Ranked(miners[i].pts)     pj == Ranked(miners[j].pts)
        si == RankedSum(i, m)           sj == RankedSum(j, m)
    IN \/ PairLess(wi, wj)
       \/ wi = wj /\ PairLess(pi, pj)
       \/ wi = wj /\ pi = pj /\ PairLess(si, sj)
       \/ wi = wj /\ pi = pj /\ si = sj
          /\ localeCompare(toLowerCase(miners[j].model), toLowerCase(miners[i].model)) < 0

\* C2: the winner's key (weight, pts, sum over the subset, model name) is the
\* lexicographic best among the non-dominated candidates of the subset.
C2_WinnerKeyIsBest ==
    \A c \in Columns : \A j \in ParetoFront(c.mask) : ~RanksAbove(j, WinnerOf(c), c.mask)

----------------------------------------------------------------------------
(* C3 *)

\* C3: every subset the loop has been through has exactly one winner column
\* when some miner has a score on one of its environments and none otherwise;
\* a non-empty candidate list never leaves an empty non-dominated list.
C3_OneWinnerPerQualifyingMask ==
    /\ mask \in 1..maxMaskOf(envs)
    /\ \A m \in EvaluatedMasks :
          Cardinality({k \in 1..Len(cols) : cols[k].mask = m})
              = IF \E i \in MinerIds : HasScoreOn(i, m) THEN 1 ELSE 0
    /\ \A m \in EvaluatedMasks :
          Len(candidatesOf(envs, miners, m)) > 0 => Len(nonDominatedOf(envs, miners, m)) > 0

\* a rendered snapshot with a subset that has a winner through a dominance
\* chain, and a subset that no miner qualifies for
C3_Witness ==
    /\ Rendered
    /\ \E m \in Masks : ~\E i \in MinerIds : HasScoreOn(i, m)
    /\ \E m \in Masks : \E a, b, c \in MinerIds :
          /\ ParetoDominates(a, b, m) /\ ParetoDominates(b, c, m)
          /\ \E k \in 1..Len(cols) : cols[k].mask = m

----------------------------------------------------------------------------
(* C4 *)

Permutations(n) == {f \in [1..n -> 1..n] : \A i, j \in 1..n : f[i] = f[j] => i = j}

\* C4: the winner of a subset is the same miner (same id) for every order of
\* the miner rows.
C4_WinnerIndependentOfRowOrder ==
    \A c \in Columns : \A f \in Permutations(Len(miners)) :
        LET ms == [i \in 1..Len(miners) |-> miners[f[i]]]
            w == bestByPareto(envs, ms, c.mask)
        IN w # 0 /\ ms[w].id = c.winnerId

----------------------------------------------------------------------------
(* C5 *)

\* C5 (as claimed): a miner missing a score on some environment of the subset
\* dominates no miner on that subset.
C5_MissingNeverDominates ==
    \A m \in Masks : \A a, b \in MinerIds :
        (\E e \in EnvsOfMask(m) : ~Present(a, e)) => ~dominates(envs, miners[a], miners[b], m)

\* C5 (amended): a miner missing a score on an environment of the subset on
\* which the other miner has a score does not dominate that miner on the
\* subset.
C5_MissingWhereOtherScoresNeverDominates ==
    \A m \in Masks : \A a, b \in MinerIds :
        (\E e \in EnvsOfMask(m) : ~Present(a, e) /\ Present(b, e))
            => ~dominates(envs, miners[a], miners[b], m)

\* a pair where a lacks a score b has, and beats b on another environment of
\* the subset
C5_Witness ==
    \E m \in Masks : \E a, b \in MinerIds : \E e, g \in EnvsOfMask(m) :
        /\ ~Present(a, e) /\ Present(b, e)
        /\ Present(a, g) /\ Present(b, g) /\ miners[a].env[g].v > miners[b].env[g].v

----------------------------------------------------------------------------
(* C6 *)

\* C6 (as claimed): a miner missing a score on an environment of a subset is
\* neither a candidate nor the winner of that subset.
C6_MissingAnywhereExcluded ==
    /\ \A m \in Masks : \A k \in 1..Len(candidatesOf(envs, miners, m)) :
          \A e \in EnvsOfMask(m) : Present(candidatesOf(envs, miners, m)[k], e)
    /\ \A c \in Columns : \A e \in EnvsOfMask(c.mask) : Present(WinnerOf(c), e)

\* C6 (amended): a miner missing a score on every environment of a subset is
\* neither a candidate nor the winner of that subset.
C6_MissingEverywhereExcluded ==
    \A m \in Masks : \A i \in MinerIds :
        ~HasScoreOn(i, m) =>
            /\ \A k \in 1..Len(candidatesOf(envs, miners, m)) : candidatesOf(envs, miners, m)[k] # i
            /\ \A c \in Columns : c.mask = m => c.winnerId # miners[i].id

\* a subset with a winner column and a miner that has no score on it
C6_Witness ==
    \E c \in Columns : \E i \in MinerIds : ~HasScoreOn(i, c.mask)

----------------------------------------------------------------------------
(* C7 *)

\* C7: dominance on a subset is irreflexive and antisymmetric, missing
\* scores included.
C7_DominanceIrreflexiveAntisymmetric ==
    \A m \in Masks : \A a, b \in MinerIds :
        /\ ~dominates(envs, miners[a], miners[a], m)
        /\ dominates(envs, miners[a], miners[b], m) => ~dominates(envs, miners[b], miners[a], m)

\* a dominates b on a subset on which both lack some score
C7_Witness ==
    \E m \in Masks : \E a, b \in MinerIds : \E e \in EnvsOfMask(m) :
        /\ dominates(envs, miners[a], miners[b], m)
        /\ ~Present(a, e) /\ ~Present(b, e)

----------------------------------------------------------------------------
(* C8 *)

SameWeight(i, j) ==
    \/ miners[i].weight = Null /\ miners[j].weight = Null
    \/ miners[i].weight.t = "num" /\ miners[i].weight = miners[j].weight

\* C8: a winner without weight has no non-dominated rival with a numeric
\* weight, and a winner without pts has no non-dominated rival of equal
\* weight with a numeric pts.
C8_MissingWeightOrPtsLoses ==
    \A c \in Columns : \A j \in ParetoFront(c.mask) :
        /\ miners[WinnerOf(c)].weight = Null => miners[j].weight.t # "num"
        /\ (miners[WinnerOf(c)].pts = Null /\ SameWeight(WinnerOf(c), j)) => miners[j].pts.t # "num"

\* a subset whose list of non-dominated candidates starts with a miner
\* without weight and holds one with a weight, and a subset where a miner
\* without pts precedes one of equal weight with pts
C8_Witness ==
    /\ \E c \in Columns : \E i, j \in ParetoFront(c.mask) :
          i < j /\ miners[i].weight = Null /\ miners[j].weight.t = "num"
    /\ \E c \in Columns : \E i, j \in ParetoFront(c.mask) :
          i < j /\ SameWeight(i, j) /\ miners[i].pts = Null /\ miners[j].pts.t = "num"

----------------------------------------------------------------------------
(* C9 *)

\* positions (from 0) of the bits set in m
BitsOf(m) == {j \in 0..(Len(envs) - 1) : (m \div (2 ^ j)) % 2 = 1}

\* the k-th smallest element of a set of numbers
KthOf(S, k) == CHOOSE x \in S : Cardinality({y \in S : y < x}) = k - 1

\* C9: the loop goes through the masks 1 .. 2^N - 1 in order, once each; the
\* columns pushed have distinct masks among those gone through, at most
\* 2^N - 1 of them; each column's size is the number of bits set in its mask
\* and its envList the environments at those bits, in the original order.
C9_SubsetEnumeration ==
    /\ mask \in 1..maxMaskOf(envs)
    /\ Len(cols) <= mask - 1
    /\ Len(cols) <= 2 ^ Len(envs) - 1
    /\ \A k \in 1..Len(cols) : cols[k].mask \in EvaluatedMasks
    /\ \A k, l \in 1..Len(cols) : k < l => cols[k].mask < cols[l].mask
    /\ \A c \in Columns :
          /\ c.size = Cardinality(BitsOf(c.mask))
          /\ Len(c.envList) = Cardinality(BitsOf(c.mask))
          /\ \A k \in 1..Len(c.envList) : c.envList[k] = envs[KthOf(BitsOf(c.mask), k) + 1]

\* the action form of C9's "once each": an iteration moves the loop counter
\* to the next mask and pushes at most one column, for the mask it left
C9_LoopAdvances ==
    [][(mask' # mask /\ summary' = summary /\ barMetric' = barMetric) =>
          /\ mask' = mask + 1
          /\ \/ cols' = cols
             \/ Len(cols') = Len(cols) + 1 /\ cols'[Len(cols')].mask = mask
                 /\ SubSeq(cols', 1, Len(cols)) = cols]_vars

\* a rendered snapshot of two environments with a column for every subset
C9_Witness ==
    /\ Rendered
    /\ Len(envs) = 2
    /\ Len(cols) = 3
    /\ \E c \in Columns : c.mask = 2 /\ c.size = 1 /\ c.envList = <<envs[2]>>

----------------------------------------------------------------------------
(* C10 *)

\* C10: on the scenario (M1 80/60 weight 1, M2 60/90 weight 1, M3 50/50
\* weight 5, no pts) the winners are M1 for {SAT}, M2 for {ABD} and M2 for
\* {SAT, ABD}.
C10_ScenarioWinners ==
    (summary = Scenario /\ Rendered) =>
        /\ envs = <<cSAT, cABD>>
        /\ Len(cols) = 3
        /\ cols[1].envList = <<cSAT>> /\ cols[1].winnerLabel = <<"M", "1">>
        /\ cols[2].envList = <<cABD>> /\ cols[2].winnerLabel = <<"M", "2">>
        /\ cols[3].envList = <<cSAT, cABD>> /\ cols[3].winnerLabel = <<"M", "2">>

\* the scenario has been rendered; M3, of the largest weight, is dominated
C10_Witness ==
    /\ summary = Scenario
    /\ Rendered
    /\ miners[3].weight = Num(5)
    /\ 3 \notin ParetoFront(3)

----------------------------------------------------------------------------
(* C11 *)

RECURSIVE SumValues(_, _)
\* the sum of the values of the columns of seq at the positions in S
SumValues(seq, S) ==
    IF S = {} THEN 0
    ELSE LET k == CHOOSE x \in S : TRUE
         IN seq[k].value + SumValues(seq, S \ {k})

\* the positions of the sorted list beyond the cap that hold a size-z subset
TailOfSize(z) == {k \in (topM + 1)..Len(sortedColumns) : sortedColumns[k].size = z}

\* the displayed "other" columns of size z
OthersOfSize(z) ==
    {k \in 1..Len(columns) : columns[k].kind = "other" /\ columns[k].size = z}

\* C11: when the sorted list is longer than the cap M, the first M displayed
\* columns are the first M sorted ones, everything after them is an "other"
\* bucket, and for each size the bucket exists exactly when the size-s subsets
\* beyond M have a positive sum of values; its value is that sum and its
\* count the number of those subsets.
C11_TailAggregatedPerSize ==
    (Rendered /\ Len(sortedColumns) > topM) =>
        /\ Len(columns) >= topM
        /\ SubSeq(columns, 1, topM) = SubSeq(sortedColumns, 1, topM)
        /\ \A k \in (topM + 1)..Len(columns) : columns[k].kind = "other"
        /\ \A z \in 1..Len(envs) :
              LET total == SumValues(sortedColumns, TailOfSize(z))
              IN /\ Cardinality(OthersOfSize(z)) = IF total > 0 THEN 1 ELSE 0
                 /\ \A k \in OthersOfSize(z) :
                       /\ columns[k].value = total
                       /\ columns[k].count = Cardinality(TailOfSize(z))

\* a truncated list with a bucket of several subsets and a size whose tail
\* sums to zero and has no bucket
C11_Witness ==
    /\ Rendered
    /\ Len(sortedColumns) > topM
    /\ \E k \in 1..Len(columns) : columns[k].kind = "other" /\ columns[k].count >= 2
    /\ \E z \in 1..Len(envs) : TailOfSize(z) # {} /\ OthersOfSize(z) = {}

----------------------------------------------------------------------------
(* C12 *)

\* the winner ids of sorted[1..k], without repetition
WinnersUpTo(sorted, k) == {sorted[j].winnerId : j \in 1..k}

\* the position at which a winner first appears in the sorted list
FirstAt(sorted, w) ==
    CHOOSE k \in 1..Len(sorted) :
        sorted[k].winnerId = w /\ \A j \in 1..(k - 1) : sorted[j].winnerId # w

\* C12: every winner of the full sorted list has the palette color of its
\* first-seen rank in that list, and a change of the display cap M changes no
\* winner's color.
C12_ColorsIndependentOfCap ==
    /\ [](/\ DOMAIN colorMap = WinnersUpTo(sortedColumns, Len(sortedColumns))
          /\ \A w \in DOMAIN colorMap :
                colorMap[w] =
                    PALETTE[(Cardinality(WinnersUpTo(sortedColumns,
                                FirstAt(sortedColumns, w) - 1)) % Len(PALETTE)) + 1])
    /\ [][topM' # topM => colorMap' = colorMap]_vars

\* the cap has been changed, it cuts the list, and a winner that appears only
\* beyond the cap still has its color
C12_Witness ==
    /\ Rendered
    /\ topM # 30
    /\ Len(sortedColumns) > topM
    /\ \E w \in DOMAIN colorMap :
          /\ colorMap[w] = PALETTE[3]
          /\ FirstAt(sortedColumns, w) > topM

----------------------------------------------------------------------------
(* C13 *)

\* x is not after y: smaller size, or same size and larger value, or same
\* size and value and a model name that collates no later
NotAfter(x, y) ==
    \/ x.size < y.size
    \/ /\ x.size = y.size
       /\ \/ x.value > y.value
          \/ /\ x.value = y.value
             /\ localeCompare(x.winnerLabel, y.winnerLabel) <= 0

\* C13: the sorted list holds exactly the subset columns computed, and each
\* record is not after its successor in the order (size ascending, value
\* descending, winner model name ascending).
C13_SortedBySizeValueName ==
    /\ Rendered => /\ Len(sortedColumns) = Len(cols)
                   /\ {sortedColumns[k] : k \in 1..Len(sortedColumns)} = Columns
    /\ \A k \in 1..(Len(sortedColumns) - 1) :
          NotAfter(sortedColumns[k], sortedColumns[k + 1])

\* the sort has reordered the computed columns, and two neighbours are
\* ordered by value and two others by name only
C13_Witness ==
    /\ Rendered
    /\ sortedColumns # cols
    /\ \E k \in 1..(Len(sortedColumns) - 1) :
          /\ sortedColumns[k].size = sortedColumns[k + 1].size
          /\ sortedColumns[k].value > sortedColumns[k + 1].value
    /\ \E k \in 1..(Len(sortedColumns) - 1) :
          /\ sortedColumns[k].size = sortedColumns[k + 1].size
          /\ sortedColumns[k].value = sortedColumns[k + 1].value
          /\ sortedColumns[k].winnerLabel # sortedColumns[k + 1].winnerLabel
          /\ sortedColumns[k].mask > sortedColumns[k + 1].mask

----------------------------------------------------------------------------
(* C14 *)

\* the column names of the snapshot
Header == IF summary = Null THEN <<>> ELSE summary.columns

\* column name c matches preference token w
MatchesToken(c, w) == norm(c) = w \/ startsWith(norm(c), w)

\* the preference tokens some column matches
MatchedTokens ==
    {k \in 1..Len(want) : \E i \in 1..Len(Header) : MatchesToken(Header[i], want[k])}

\* C14: the inferred environment list has at most 8 entries, no name twice,
\* and every entry is a column name of the snapshot as the snapshot spells it.
C14_EnvsCappedDistinctOriginal ==
    /\ Len(envs) <= 8
    /\ \A i, j \in 1..Len(envs) : envs[i] = envs[j] => i = j
    /\ \A i \in 1..Len(envs) : \E k \in 1..Len(Header) : envs[i] = Header[k]

\* nine columns or more could be environments, eight are kept, one of them in
\* a spelling that normalization would change
C14_Witness ==
    /\ summary # Null
    /\ Len(envs) = 8
    /\ Cardinality(MatchedTokens) > 8
    /\ \E i \in 1..Len(envs) : norm(envs[i]) # envs[i]

----------------------------------------------------------------------------
(* C15 *)

\* the first column that matches token k
FirstMatch(k) ==
    Header[CHOOSE i \in 1..Len(Header) :
              /\ MatchesToken(Header[i], want[k])
              /\ \A j \in 1..(i - 1) : ~MatchesToken(Header[j], want[k])]

\* the first matching column of each matched token, in preference-list order
PreferredList ==
    LET ks == SelectSeq([k \in 1..Len(want) |-> k], LAMBDA k : k \in MatchedTokens)
    IN [j \in 1..Len(ks) |-> FirstMatch(ks[j])]

\* the scan never contributes a meta-column
NoMetaFromScan ==
    Cardinality(MatchedTokens) < 2 =>
        \A i \in 1..Len(envs) :
            \/ \E j \in 1..Len(PreferredList) : envs[i] = PreferredList[j]
            \/ norm(envs[i]) \notin exclude

\* C15 as stated: with two matched tokens or more the result is exactly the
\* first matching column of each matched token, in preference-list order, and
\* otherwise the scan adds no meta-column.
C15_PreferredListExactly ==
    summary # Null =>
        /\ Cardinality(MatchedTokens) >= 2 => envs = PreferredList
        /\ NoMetaFromScan

\* C15, amended: with two matched tokens or more the result is the first
\* eight entries of the list of the first matching column of each matched
\* token, in preference-list order; otherwise the scan adds no meta-column.
C15_PreferredListCapped ==
    summary # Null =>
        /\ Cardinality(MatchedTokens) >= 2 =>
              envs = SubSeq(PreferredList, 1,
                            IF Len(PreferredList) < 8 THEN Len(PreferredList) ELSE 8)
        /\ NoMetaFromScan

\* one token matched only, the scan ran over a list with meta-columns and
\* added a column
C15_Witness ==
    /\ summary # Null
    /\ Cardinality(MatchedTokens) = 1
    /\ \E k \in 1..Len(Header) : norm(Header[k]) \in exclude
    /\ Len(envs) >= 2

----------------------------------------------------------------------------
(* C16 *)

\* the cell of row i in the column named c; Undefined without such a column
CellOf(i, c) == cellAt(summary.rows[i], IndexIn(summary.columns, c))

\* the cell holds a number, or text that starts with a digit once its
\* asterisks are removed
Parses(cell) ==
    \/ cell.t = "num"
    \/ cell.t = "str" /\ StripStars(cell.s) # <<>> /\ IsDigit(StripStars(cell.s)[1])

\* C16: the env map of every miner record has one entry for each inferred
\* environment and no other key; an entry is a finite number or null, and it
\* is null when the cell is absent or does not parse.
C16_EnvMapKeysAreEnvs ==
    \A i \in MinerIds :
        /\ DOMAIN miners[i].env = {envs[k] : k \in 1..Len(envs)}
        /\ \A e \in DOMAIN miners[i].env :
              /\ miners[i].env[e] = Null \/ miners[i].env[e].t = "num"
              /\ ~Parses(CellOf(i, e)) => miners[i].env[e] = Null

\* two environments, one miner with an entry that is null because its cell
\* is text without a number, and a number for the other environment
C16_Witness ==
    /\ Len(envs) = 2
    /\ \E i \in MinerIds :
          /\ CellOf(i, envs[1]).t = "str"
          /\ miners[i].env[envs[1]] = Null
          /\ miners[i].env[envs[2]].t = "num"

----------------------------------------------------------------------------
(* C17 *)

\* a field of a miner record is null or a finite number
NullOrFinite(x) == x = Null \/ x.t = "num"

\* C17: a cell of an environment, Pts or Wgt column that does not hold a
\* number yields null for that field, never a non-finite number, and every
\* row still yields its record.
C17_MalformedCellsBecomeNull ==
    /\ summary # Null => Len(miners) = Len(summary.rows)
    /\ \A i \in MinerIds :
          /\ \A e \in DOMAIN miners[i].env : NullOrFinite(miners[i].env[e])
          /\ NullOrFinite(miners[i].pts)
          /\ NullOrFinite(miners[i].weight)

----------------------------------------------------------------------------
(* C18 *)

\* the cell holds a number or the decimal text of one
HoldsNumber(cell) ==
    \/ cell.t = "num"
    \/ cell.t = "str" /\ cell.s # <<>> /\ AllDigits(cell.s)

\* C18: the uid of a miner record is a number when the UID cell holds a
\* numeric value and is null otherwise (no UID column, null, empty text,
\* other text).
C18_UidUnsetUnlessNumeric ==
    \A i \in MinerIds :
        IF HoldsNumber(CellOf(i, cUID))
        THEN miners[i].uid.t = "num"
        ELSE miners[i].uid = Null

----------------------------------------------------------------------------
(* C19 *)

----------------------------------------------------------------------------
(* C20 *)

\* fetch i ends with both endpoints failed
FailsBoth(i) == fetches[i] = "fallback" /\ fetches'[i] = "idle" /\ error' # Null

\* C20: a refresh that fails on both endpoints when a snapshot is held
\* leaves the snapshot as it is and sets the error; after it loading is off
\* and the view is what the held snapshot gives: the matrix with the same
\* displayed columns, or the insufficient-data text if it gave that before.
C20_StaleWhileError ==
    [][\A i \in Fetches :
          (FailsBoth(i) /\ summary # Null) =>
              /\ summary' = summary
              /\ error' # Null
              /\ ~loading'
              /\ envs' = inferEnvs(summary)
              /\ miners' = minersOf(summary, envs')
              /\ Rendered'
              /\ sortedColumns' = sortedColumnsOf(cols')
              /\ columns' = columns
              /\ matrixView' = IF Len(envs') >= 2 /\ Len(columns') > 0
                               THEN "matrix" ELSE "insufficient"]_vars

\* the error is set, no refresh is running, and the matrix of the snapshot
\* loaded earlier is shown
C20_Witness ==
    /\ summary # Null
    /\ error # Null
    /\ \A i \in Fetches : fetches[i] = "idle"
    /\ matrixView = "matrix"
    /\ Len(columns) = 3

----------------------------------------------------------------------------
(* C21 *)

\* C21: a call of fetchData moves only from the primary request to the end
\* (success: the snapshot is set, the error cleared, the fallback endpoint
\* not requested) or to the fallback request (failure: nothing set), and from
\* the fallback request only to the end, with the snapshot set or with the
\* error set and the snapshot kept; nothing is requested again before the
\* next call of fetchData.
C21_OneFallbackAfterPrimaryFailure ==
    [][\A i \in Fetches :
          fetches'[i] # fetches[i] =>
              \/ /\ fetches[i] = "idle"
                 /\ fetches'[i] = "primary"
              \/ /\ fetches[i] = "primary"
                 /\ fetches'[i] = "fallback"
                 /\ UNCHANGED <<summary, error, loading>>
              \/ /\ fetches[i] = "primary"
                 /\ fetches'[i] = "idle"
                 /\ summary' \in Payloads /\ error' = Null
              \/ /\ fetches[i] = "fallback"
                 /\ fetches'[i] = "idle"
                 /\ \/ summary' \in Payloads /\ error' = Null
                    \/ summary' = summary /\ error' # Null]_vars

\* the first refresh has failed on both endpoints: no snapshot, the error
\* set, nothing in flight
C21_Witness ==
    /\ summary = Null
    /\ error # Null
    /\ ~loading
    /\ \A i \in Fetches : fetches[i] = "idle"

----------------------------------------------------------------------------
(* C22 *)

\* C22: the result of a request in flight at the unmount is discarded: the
\* state setters (setData, setError, setLoading) are not called after the
\* component has unmounted.
C22_NoUpdateAfterUnmount == ~refreshLog.late

----------------------------------------------------------------------------
(* C26 *)

\* C26: when no refresh is in flight, the snapshot held is that of the
\* refresh started last among the refreshes that delivered one.
C26_NewestSnapshotHeld ==
    (\A i \in Fetches : fetches[i] = "idle") => refreshLog.held = refreshLog.newest

----------------------------------------------------------------------------
(* C27 *)

\* C27: loading is true in every state where a refresh is in flight.
C27_LoadingWhileInFlight ==
    (\E i \in Fetches : fetches[i] # "idle") => loading

----------------------------------------------------------------------------
(* C28 *)

\* C28: once a snapshot with at least two environments and at least one
\* winner is held and rendered, the matrix is displayed, also while a later
\* refresh is in flight.
C28_ViewsStayDuringRefresh ==
    (Rendered /\ summary # Null /\ Len(envs) >= 2 /\ Len(columns) > 0)
        => matrixView = "matrix"

----------------------------------------------------------------------------
(* C23 *)

\* the masks of the subsets of z environments
MasksOfSize(z) == {m \in Masks : Cardinality(EnvsOfMask(m)) = z}

\* the masks of S that have a winner, and those won by a miner with id `id`
Won(S) == {m \in S : stackedBestByPareto(envs, miners, m) # 0}
WonBy(S, id) == {m \in Won(S) : miners[stackedBestByPareto(envs, miners, m)].id = id}

\* the Pts of a miner as a number: an absent Pts is 0
PtsOf(i) == IF miners[i].pts.t = "num" THEN miners[i].pts.v ELSE 0

\* the Pts of a miner as the stacked view counts them: only a positive
\* finite number counts
PositivePtsOf(i) == IF PtsOf(i) > 0 THEN PtsOf(i) ELSE 0

RECURSIVE SumPts(_, _)
\* the sum over the masks of S of the winner's Pts, positive ones only when
\* positiveOnly
SumPts(S, positiveOnly) ==
    IF S = {} THEN 0
    ELSE LET m == CHOOSE x \in S : TRUE
             w == stackedBestByPareto(envs, miners, m)
         IN (IF positiveOnly THEN PositivePtsOf(w) ELSE PtsOf(w))
                + SumPts(S \ {m}, positiveOnly)

----------------------------------------------------------------------------
(* C24 *)

\* the tie-break key of miner i on subset m: weight, pts, sum, model
TieKey(i, m) == ledgerKey(envs, miners[i], m)

\* miner a is strictly better than miner b on dimension d of the key
BetterOn(a, b, m, d) ==
    IF d < 4 THEN JsGt(TieKey(a, m)[d], TieKey(b, m)[d])
    ELSE localeCompare(TieKey(a, m)[4], TieKey(b, m)[4]) < 0

\* miners a and b have the same key on every dimension before d
TiedBefore(a, b, m, d) == \A c \in 1..(d - 1) : TieKey(a, m)[c] = TieKey(b, m)[c]

\* on dimension d miner w is strictly better than every other non-dominated
\* candidate still tied with it on the earlier dimensions
DecidesOn(w, m, d) ==
    \A j \in ParetoFront(m) \ {w} : TiedBefore(w, j, m, d) => BetterOn(w, j, m, d)

\* C24: with two or more non-dominated candidates the reported tieBreak is
\* the first dimension that decides for the winner; with one it is '-'.
C24_TieBreakIsDecidingDimension ==
    \A m \in Masks :
        LET detail == computeWinnerDetail(envs, miners, m)
        IN /\ Cardinality(ParetoFront(m)) = 1 => detail.tieBreak = "-"
           /\ Cardinality(ParetoFront(m)) >= 2 =>
                 \A d \in 1..4 :
                     (/\ DecidesOn(detail.winner, m, d)
                      /\ \A c \in 1..(d - 1) : ~DecidesOn(detail.winner, m, c))
                         => detail.tieBreak = dims[d]

----------------------------------------------------------------------------
(* C25 *)

\* C25: on every subset the matrix view's bestByPareto, the stacked view's
\* bestByPareto and the ledger's computeWinnerDetail name the same miner, or
\* none of them names one.
C25_SameWinnerInThreeCopies ==
    \A m \in Masks :
        /\ stackedBestByPareto(envs, miners, m) = bestByPareto(envs, miners, m)
        /\ computeWinnerDetail(envs, miners, m).winner = bestByPareto(envs, miners, m)

\* one subset is won on the tie-break among several non-dominated miners and
\* another subset has no winner
C25_Witness ==
    /\ \E m \in Masks :
          /\ Cardinality(ParetoFront(m)) >= 2
          /\ computeWinnerDetail(envs, miners, m).winner \in ParetoFront(m)
          /\ computeWinnerDetail(envs, miners, m).winner # ledgerNonDominated(envs, miners, m)[1]
    /\ \E m \in Masks : computeWinnerDetail(envs, miners, m).winner = 0

----------------------------------------------------------------------------
(* C30 *)

\* the candidates of subset m
CandidatesOn(m) == {i \in MinerIds : HasScoreOn(i, m)}

\* C30: on a subset with several candidates and one non-dominated candidate,
\* the winner dominates every other candidate, domEdges is the number of
\* candidates minus one, winMode is 'dom' and tieBreak is '-'; on every
\* subset winMode is 'dom' exactly when the winner dominates a candidate.
C30_SoleFrontDominatesAll ==
    \A m \in Masks :
        LET detail == computeWinnerDetail(envs, miners, m)
        IN /\ (Cardinality(CandidatesOn(m)) > 1 /\ Cardinality(ParetoFront(m)) = 1) =>
                 /\ \A j \in CandidatesOn(m) \ {detail.winner} :
                       ParetoDominates(detail.winner, j, m)
                 /\ detail.domEdges = Cardinality(CandidatesOn(m)) - 1
                 /\ detail.winMode = "dom"
                 /\ detail.tieBreak = "-"
           /\ detail.winMode = "dom" <=>
                 /\ detail.winner # 0
                 /\ \E j \in CandidatesOn(m) \ {detail.winner} :
                       ParetoDominates(detail.winner, j, m)

\* a subset with three candidates, two of them dominated by the third, and a
\* subset whose winner dominates nobody
C30_Witness ==
    /\ \E m \in Masks :
          /\ Cardinality(CandidatesOn(m)) = 3
          /\ Cardinality(ParetoFront(m)) = 1
          /\ computeWinnerDetail(envs, miners, m).domEdges = 2
    /\ \E m \in Masks : computeWinnerDetail(envs, miners, m).winMode = "mean"

----------------------------------------------------------------------------
(* C29 *)

\* the displayed columns that stand for one subset
DisplayedSubsets == {k \in 1..Len(columns) : columns[k].kind = "subset"}

RECURSIVE SumCounts(_)
\* the sum of the counts of the displayed columns at the positions in S
SumCounts(S) ==
    IF S = {} THEN 0
    ELSE LET k == CHOOSE x \in S : TRUE
         IN columns[k].count + SumCounts(S \ {k})

\* the "other" buckets displayed
DisplayedOthers == {k \in 1..Len(columns) : columns[k].kind = "other"}

\* the winner records beyond the cap whose size has no bucket: the values of
\* the size's records beyond the cap do not sum to a positive number
Unaccounted ==
    {k \in (topM + 1)..Len(sortedColumns) :
        SumValues(sortedColumns, TailOfSize(sortedColumns[k].size)) <= 0}

\* C29 as stated: the displayed subset columns and the counts of the "other"
\* buckets add up to the number of winner records.
C29_EveryWinnerAccounted ==
    Rendered =>
        Cardinality(DisplayedSubsets) + SumCounts(DisplayedOthers) = Len(sortedColumns)

\* C29 (amended): the displayed subset columns, the counts of the "other"
\* buckets and the records beyond the cap of the sizes without a bucket add
\* up to the number of winner records.
C29_WinnersAccountedOrDropped ==
    Rendered =>
        Cardinality(DisplayedSubsets) + SumCounts(DisplayedOthers) + Cardinality(Unaccounted)
            = Len(sortedColumns)

\* a truncated list under the metric sum, where every record has a positive
\* value: a bucket folds several records and none is left out
C29_Witness ==
    /\ Rendered
    /\ barMetric = "sum"
    /\ Len(sortedColumns) > topM
    /\ topM > 5
    /\ \E k \in DisplayedOthers : columns[k].count >= 2
    /\ Unaccounted = {}

====
